---- MODULE Spec2Model ----
(***************************************************************************)
(* A model of the aptos-dkg PVSS engine: the SCRAPE transcript protocol    *)
(* (deal / verify / aggregate_with / decrypt_own_share / reconstruct), the *)
(* threshold and weighted secret-sharing configurations and the Weighted   *)
(* wrapper.                                                                *)
(*                                                                         *)
(* Representation.  The three pairing groups G1, G2, Gt all have the prime *)
(* order of the scalar field.  A group element is represented by its       *)
(* discrete logarithm with respect to a fixed generator of its group, so   *)
(* group addition is addition of logarithms, scalar multiplication is      *)
(* multiplication, the identity is 0 and the pairing e(P, Q) multiplies    *)
(* the two logarithms.  Two group elements are equal exactly when their    *)
(* logarithms are.  The scalar field is scaled down to a small prime field *)
(* that still has the 2-adic roots of unity the FFT domains need.          *)
(*                                                                         *)
(* Rust vectors are 0-indexed, TLA+ sequences 1-indexed: player id i owns  *)
(* position i + 1.                                                         *)
(***************************************************************************)
EXTENDS Integers, Sequences, FiniteSets, TLC

\* ------------------------------------------------------------------ bounds

\* The largest number of players (shares) n of a threshold configuration.
MaxN == 3

\* random_scalars draws every coefficient from 0..MaxRnd.
MaxRnd == 1

\* The players' decryption keys are generated from a seed in 0..MaxDkSeed.
MaxDkSeed == 0

\* How many times aggregate_with may be called on the first transcript.
MaxAggr == 1

\* ------------------------------------------------------------ scalar field

\* The order of the scalar field (scaled down; 5 - 1 = 4 = 2^2, so domains
\* of size 1, 2 and 4 exist).
SCALAR_FIELD_ORDER == 5

Scalars == 0 .. (SCALAR_FIELD_ORDER - 1)

Fadd(a, b) == (a + b) % SCALAR_FIELD_ORDER

Fneg(a) == (SCALAR_FIELD_ORDER - (a % SCALAR_FIELD_ORDER)) % SCALAR_FIELD_ORDER

Fsub(a, b) == Fadd(a, Fneg(b))

Fmul(a, b) == (a * b) % SCALAR_FIELD_ORDER

RECURSIVE Fpow(_, _)
Fpow(a, e) == IF e = 0 THEN 1 ELSE Fmul(a, Fpow(a, e - 1))

\* Field inversion (Fermat); the inverse of 0 is left as 0.
Finv(a) == Fpow(a, SCALAR_FIELD_ORDER - 2)

\* ------------------------------------------------------------------ groups

\* The identity of G1, G2 and Gt.
Identity == 0

GroupElements == Scalars

\* P + Q
Gadd(p, q) == Fadd(p, q)

\* -P
Gneg(p) == Fneg(p)

\* P.mul(s)
Gmul(p, s) == Fmul(p, s)

\* e(P, Q), a Gt element
Pairing(p, q) == Fmul(p, q)

RECURSIVE SumSeq(_)
SumSeq(s) == IF s = <<>> THEN 0 ELSE Fadd(Head(s), SumSeq(Tail(s)))

Min(a, b) == IF a <= b THEN a ELSE b

\* Body applied to the value of v, v being evaluated once (a local binding
\* of the source: let x = v; ...).
Let(v, Body(_)) == CHOOSE y \in {Body(x) : x \in {v}} : TRUE

\* multi_exp(bases, scalars): the sum of bases[i] * scalars[i]
multi_exp(bases, scalars) ==
    Let(bases, LAMBDA b : Let(scalars, LAMBDA e :
        SumSeq([i \in 1 .. Min(Len(b), Len(e)) |-> Gmul(b[i], e[i])])))

\* multi_miller_loop followed by final_exponentiation: the product of the
\* pairings of the pairs, a Gt element
multi_pairing(pairs) ==
    SumSeq([i \in 1 .. Len(pairs) |-> Pairing(pairs[i][1], pairs[i][2])])

\* ------------------------------------------------------------ serialization

\* A compressed point is one word.  Words range over 0 .. 2 * order - 1; the
\* encoding of the point with logarithm p is the even word 2 * p, and an odd
\* word is the encoding of no point (not on the curve).
Words == 0 .. (2 * SCALAR_FIELD_ORDER - 1)

\* The size in bytes of a compressed G1 point and of a compressed G2 point
G1_PROJ_NUM_BYTES == 48
G2_PROJ_NUM_BYTES == 96

to_compressed(p) == <<2 * p>>

\* from_compressed: [some |-> TRUE, p |-> the point] or [some |-> FALSE, ...]
from_compressed(w) ==
    IF w % 2 = 0 /\ w \div 2 \in GroupElements
    THEN [some |-> TRUE, p |-> w \div 2]
    ELSE [some |-> FALSE, p |-> 0]

RECURSIVE Flatten(_)
Flatten(ss) == IF ss = <<>> THEN <<>> ELSE Head(ss) \o Flatten(Tail(ss))

\* --------------------------------------------------- polynomials and domains

\* n != 0 && (n & (n - 1) == 0)
RECURSIVE is_power_of_two(_)
is_power_of_two(n) ==
    IF n = 0 THEN FALSE
    ELSE IF n = 1 THEN TRUE
    ELSE n % 2 = 0 /\ is_power_of_two(n \div 2)

RECURSIVE smallest_power_of_2_geq(_, _)
smallest_power_of_2_geq(n, p) == IF p >= n THEN p ELSE smallest_power_of_2_geq(n, 2 * p)

\* BatchEvaluationDomain::new(n): the N-th roots of unity, N the smallest
\* power of two >= n.  2 generates the multiplicative group of the field.
BatchEvaluationDomain_new(n) ==
    LET N == smallest_power_of_2_geq(n, 1)
    IN  [N |-> N, omega |-> Fpow(2, (SCALAR_FIELD_ORDER - 1) \div N)]

\* get_subdomain(k): the size-(next power of two >= k) domain
get_subdomain(batch_dom, k) ==
    LET N == smallest_power_of_2_geq(k, 1)
    IN  [N |-> N, omega |-> Fpow(batch_dom.omega, batch_dom.N \div N)]

\* omega^i of a domain
get_root(dom, i) == Fpow(dom.omega, i % dom.N)

\* poly_eval(coeffs, x): Horner evaluation
RECURSIVE poly_eval(_, _)
poly_eval(coeffs, x) ==
    IF coeffs = <<>> THEN 0
    ELSE Fadd(Head(coeffs), Fmul(x, poly_eval(Tail(coeffs), x)))

\* fft(f, dom): the evaluations of f at omega^0 .. omega^(N-1)
fft(f, dom) == [i \in 1 .. dom.N |-> poly_eval(f, get_root(dom, i - 1))]

RECURSIVE ProdSeq(_)
ProdSeq(s) == IF s = <<>> THEN 1 ELSE Fmul(Head(s), ProdSeq(Tail(s)))

\* lagrange_coefficients(batch_dom, points, x): for the k-th point index p_k,
\* prod_{j # k} (x - omega^{p_j}) / (omega^{p_k} - omega^{p_j})
lagrange_coefficients(batch_dom, points, x) ==
    [k \in 1 .. Len(points) |->
        ProdSeq([j \in 1 .. Len(points) |->
            IF j = k THEN 1
            ELSE Fmul(Fsub(x, get_root(batch_dom, points[j])),
                      Finv(Fsub(get_root(batch_dom, points[k]),
                                get_root(batch_dom, points[j]))))])]

\* all_n_lagrange_coefficients(batch_dom, x): the coefficients over all N
\* points of the domain
all_n_lagrange_coefficients(batch_dom, x) ==
    lagrange_coefficients(batch_dom, [i \in 1 .. batch_dom.N |-> i - 1], x)

\* lagrange_coefficients_at_zero(batch_dom, ids)
lagrange_coefficients_at_zero(batch_dom, ids) ==
    lagrange_coefficients(batch_dom, ids, 0)

\* ------------------------------------------- polynomial multiplication
\* crate::algebra::polynomials.  A polynomial is the sequence of its
\* coefficients, lowest degree first.

\* An evaluation domain of N points needs an N-th root of unity, and the
\* scalar field has none of order above SCALAR_FIELD_ORDER - 1.
MaxCoeffs == SCALAR_FIELD_ORDER - 1

\* fft_assign(poly, dom): poly is resized to dom.N and replaced by its
\* evaluations at the N roots of unity
fft_assign(poly, dom) == fft(poly, dom)

\* ifft_assign(evals, dom): the inverse transform, evaluations at the powers
\* of omega^{-1} scaled by N^{-1}
ifft_assign(evals, dom) ==
    Let(Finv(dom.omega), LAMBDA w_inv :
    Let(Finv(dom.N % SCALAR_FIELD_ORDER), LAMBDA N_inv :
        [i \in 1 .. dom.N |->
            Fmul(N_inv, poly_eval(evals, Fpow(w_inv, i - 1)))]))

\* poly_mul_slow(f, g): the schoolbook product, coefficient k is the sum of
\* f[i] * g[k - i]
poly_mul_slow(f, g) ==
    [k \in 1 .. Len(f) + Len(g) - 1 |->
        SumSeq([i \in 1 .. Len(f) |->
            IF k - i + 1 >= 1 /\ k - i + 1 <= Len(g)
            THEN Fmul(f[i], g[k - i + 1]) ELSE 0])]

\* poly_add_assign: coefficient-wise sum, the longer operand gives the length
poly_add(f, g) ==
    [k \in 1 .. (IF Len(f) >= Len(g) THEN Len(f) ELSE Len(g)) |->
        Fadd(IF k <= Len(f) THEN f[k] ELSE 0,
             IF k <= Len(g) THEN g[k] ELSE 0)]

\* poly_xnmul with the zero coefficients appended
poly_xnmul_appending_zeros(f, n) == f \o [i \in 1 .. n |-> 0]

\* poly_xnmul(f, n): multiplication by X^n prepends n zero coefficients
poly_xnmul(f, n) == [i \in 1 .. n |-> 0] \o f

\* poly_mul_less_slow(f, g): divide and conquer on operands of equal
\* power-of-two length n, f = f0 + X^{n/2} f1 and g = g0 + X^{n/2} g1:
\* f g = f0 g0 + X^{n/2} (f0 g1 + f1 g0) + X^n f1 g1
RECURSIVE poly_mul_less_slow(_, _)
poly_mul_less_slow(f, g) ==
    IF Len(f) = 1 THEN << Fmul(f[1], g[1]) >>
    ELSE Let(Len(f) \div 2, LAMBDA half :
         Let(SubSeq(f, 1, half), LAMBDA f0 :
         Let(SubSeq(f, half + 1, Len(f)), LAMBDA f1 :
         Let(SubSeq(g, 1, half), LAMBDA g0 :
         Let(SubSeq(g, half + 1, Len(g)), LAMBDA g1 :
             poly_add(poly_mul_less_slow(f0, g0),
               poly_add(
                 poly_xnmul(poly_add(poly_mul_less_slow(f0, g1),
                                     poly_mul_less_slow(f1, g0)), half),
                 poly_xnmul(poly_mul_less_slow(f1, g1), 2 * half))))))))

\* poly_mul_fft without the N^{-1} scaling of the inverse transform
poly_mul_fft_without_scaling(f, g) ==
    Let(Len(f) + Len(g) - 1, LAMBDA n :
    Let(get_subdomain(BatchEvaluationDomain_new(n), n), LAMBDA dom :
    Let(fft_assign(f, dom), LAMBDA f_evals :
    Let(fft_assign(g, dom), LAMBDA g_evals :
        SubSeq([i \in 1 .. dom.N |->
                   poly_eval([j \in 1 .. dom.N |->
                                 Fmul(f_evals[j], g_evals[j])],
                             Fpow(Finv(dom.omega), i - 1))],
               1, n)))))

\* poly_mul_fft(f, g): both operands are evaluated over the smallest
\* power-of-two domain of at least deg f + deg g + 1 points, multiplied
\* pointwise, transformed back and truncated to deg f + deg g + 1 coefficients
poly_mul_fft(f, g) ==
    Let(Len(f) + Len(g) - 1, LAMBDA n :
    Let(get_subdomain(BatchEvaluationDomain_new(n), n), LAMBDA dom :
    Let(fft_assign(f, dom), LAMBDA f_evals :
    Let(fft_assign(g, dom), LAMBDA g_evals :
        SubSeq(ifft_assign([j \in 1 .. dom.N |->
                               Fmul(f_evals[j], g_evals[j])], dom),
               1, n)))))

\* all_lagrange_denominators(batch_dom, n): for each of the first n roots of
\* unity the inverse of the product of its differences to the other n - 1
all_lagrange_denominators(batch_dom, n) ==
    [i \in 1 .. n |->
        Finv(ProdSeq([j \in 1 .. n |->
            IF j = i THEN 1
            ELSE Fsub(get_root(batch_dom, i - 1),
                      get_root(batch_dom, j - 1))]))]

\* get_dual_code_word without the Lagrange denominators: the evaluations of
\* f alone
get_dual_code_word_without_denominators(deg, batch_dom, n, f_rand) ==
    IF n - deg - 2 < 0 THEN [panic |-> TRUE, vf |-> <<>>]
    ELSE [panic |-> FALSE,
          vf |-> SubSeq(fft_assign(f_rand, get_subdomain(batch_dom, n)), 1, n)]

\* get_dual_code_word(deg, batch_dom, n, rng): f_rand is what
\* random_scalars(n - deg - 2, rng) returns.  n - deg - 2 is a usize: below
\* zero the subtraction overflows, which aborts either there or in the
\* allocation of the vector, and no word is returned.
get_dual_code_word(deg, batch_dom, n, f_rand) ==
    IF n - deg - 2 < 0 THEN [panic |-> TRUE, vf |-> <<>>]
    ELSE Let(SubSeq(fft_assign(f_rand, get_subdomain(batch_dom, n)), 1, n), LAMBDA f :
         Let(all_lagrange_denominators(batch_dom, n), LAMBDA v :
             [panic |-> FALSE,
              vf |-> [i \in 1 .. Min(Len(f), Len(v)) |-> Fmul(f[i], v[i])]]))

\* ---------------------------------------------------------- configurations

\* Player { id }
Player(i) == [id |-> i]

\* ThresholdConfig::new(t, n)
ThresholdConfig_new(t, n) ==
    LET batch_dom == BatchEvaluationDomain_new(n)
        dom == get_subdomain(batch_dom, n)
    IN  [t |-> t, n |-> n, dom |-> dom, batch_dom |-> batch_dom]

\* SecretSharingConfig::get_player without its assertion
get_player_without_assertion(total_num_players, i) ==
    [panic |-> FALSE, player |-> Player(i)]

\* SecretSharingConfig::get_player for a configuration with total_num_players
\* players: assert_lt!(i, n), then Player { id: i }
get_player(total_num_players, i) ==
    [panic |-> ~(i < total_num_players), player |-> Player(i)]

\* ThresholdConfig::get_total_num_players
ThresholdConfig_get_total_num_players(sc) == sc.n

\* ------------------------------------------------------- public parameters

\* PublicParameters::default(): three points obtained by hashing a fixed seed
\* to the curve (the logarithms of h1_hat and u1_hat in G2 and of g1 in G1)
\* encryption_dlog::g2::PublicParameters::new(h) and as_group_element(): the
\* public parameters of the encryption scheme hold the one base h
encryption_dlog_PublicParameters_new(h) == [h |-> h]

as_group_element(enc) == enc.h

PublicParameters_default ==
    [enc |-> encryption_dlog_PublicParameters_new(2), u1_hat |-> 3, g1 |-> 4]

get_encryption_key_base(pp) == as_group_element(pp.enc)

get_public_key_base(pp) == pp.u1_hat

get_commitment_base(pp) == pp.g1

\* PublicParameters::to_bytes with the public-key base written first
PublicParameters_to_bytes_public_key_base_first(pp) ==
    to_compressed(pp.u1_hat) \o to_compressed(as_group_element(pp.enc))
        \o to_compressed(pp.g1)

\* PublicParameters::to_bytes
PublicParameters_to_bytes(pp) ==
    to_compressed(as_group_element(pp.enc)) \o to_compressed(pp.u1_hat)
        \o to_compressed(pp.g1)

\* The size, in number of bytes, of a serialized PublicParameters struct
NUM_BYTES == G1_PROJ_NUM_BYTES + 2 * G2_PROJ_NUM_BYTES

\* PublicParameters::new_from_seed: three points hashed from the seed, here
\* the three points themselves
new_from_seed(h1_hat, u1_hat, g1) ==
    [enc |-> encryption_dlog_PublicParameters_new(h1_hat), u1_hat |-> u1_hat, g1 |-> g1]

\* The byte slice of to_bytes(): its length, and the three words of its
\* slices [0, 96), [96, 192) and [192, 240)
PublicParameters_byte_slice(pp) ==
    [num_bytes |-> G2_PROJ_NUM_BYTES + G2_PROJ_NUM_BYTES + G1_PROJ_NUM_BYTES,
     words |-> PublicParameters_to_bytes(pp)]

\* CtOption::unwrap
unwrap(opt) == [panic |-> ~ opt.some, value |-> opt.p]

\* PublicParameters::try_from that does not look at g1_opt.is_some()
PublicParameters_try_from_without_g1_check(bytes) ==
    IF bytes.num_bytes # NUM_BYTES
    THEN [ok |-> FALSE, err |-> "WrongLengthError", panic |-> FALSE,
          pp |-> PublicParameters_default]
    ELSE Let(from_compressed(bytes.words[1]), LAMBDA h1_hat_opt :
         Let(from_compressed(bytes.words[2]), LAMBDA u1_hat_opt :
         Let(from_compressed(bytes.words[3]), LAMBDA g1_opt :
             IF h1_hat_opt.some /\ u1_hat_opt.some
             THEN [ok |-> TRUE, err |-> "none",
                   panic |-> \/ unwrap(h1_hat_opt).panic
                             \/ unwrap(u1_hat_opt).panic
                             \/ unwrap(g1_opt).panic,
                   pp |-> [enc |-> encryption_dlog_PublicParameters_new(
                                       unwrap(h1_hat_opt).value),
                           u1_hat |-> unwrap(u1_hat_opt).value,
                           g1 |-> unwrap(g1_opt).value]]
             ELSE [ok |-> FALSE, err |-> "DeserializationError", panic |-> FALSE,
                   pp |-> PublicParameters_default])))

\* PublicParameters::try_from
PublicParameters_try_from(bytes) ==
    IF bytes.num_bytes # NUM_BYTES
    THEN [ok |-> FALSE, err |-> "WrongLengthError", panic |-> FALSE,
          pp |-> PublicParameters_default]
    ELSE Let(from_compressed(bytes.words[1]), LAMBDA h1_hat_opt :
         Let(from_compressed(bytes.words[2]), LAMBDA u1_hat_opt :
         Let(from_compressed(bytes.words[3]), LAMBDA g1_opt :
             IF h1_hat_opt.some /\ u1_hat_opt.some /\ g1_opt.some
             THEN [ok |-> TRUE, err |-> "none",
                   panic |-> \/ unwrap(h1_hat_opt).panic
                             \/ unwrap(u1_hat_opt).panic
                             \/ unwrap(g1_opt).panic,
                   pp |-> [enc |-> encryption_dlog_PublicParameters_new(
                                       unwrap(h1_hat_opt).value),
                           u1_hat |-> unwrap(u1_hat_opt).value,
                           g1 |-> unwrap(g1_opt).value]]
             ELSE [ok |-> FALSE, err |-> "DeserializationError", panic |-> FALSE,
                   pp |-> PublicParameters_default])))

\* The encryption key of a decryption key dk: ek = h1_hat^(1 / dk)
dk_to_ek(dk, pp) == Gmul(get_encryption_key_base(pp), Finv(dk))

\* DecryptPrivKey::generate for every player: non-zero scalars drawn from
\* the generator seeded with seed
generate_dks(n, seed) ==
    [i \in 1 .. n |-> ((seed + i - 1) % (SCALAR_FIELD_ORDER - 1)) + 1]

\* setup_dealing: eks = dks.map(|dk| dk.to(pp.get_encryption_public_params()))
setup_eks(keys, pp) == [i \in 1 .. Len(keys) |-> dk_to_ek(keys[i], pp)]

\* Convert<DealtSecretKey, PublicParameters> for InputSecret
InputSecret_to_DealtSecretKey(a, pp) == Gmul(get_encryption_key_base(pp), a)

\* Convert<DealtPubKey, PublicParameters> for InputSecret
InputSecret_to_DealtPubKey(a, pp) == Gmul(get_commitment_base(pp), a)

\* -------------------------------------------------------------- transcript

\* A transcript that has not been dealt yet.
Unbuilt == [u2_hat |-> Identity, F |-> <<>>, A |-> <<>>, Y_hat |-> <<>>]

\* bcs::to_bytes of a Transcript: u2_hat, then each vector as its length
\* followed by its compressed points
Transcript_to_bytes(trx) ==
    to_compressed(trx.u2_hat)
        \o <<Len(trx.F)>> \o Flatten([i \in 1 .. Len(trx.F) |-> to_compressed(trx.F[i])])
        \o <<Len(trx.A)>> \o Flatten([i \in 1 .. Len(trx.A) |-> to_compressed(trx.A[i])])
        \o <<Len(trx.Y_hat)>>
        \o Flatten([i \in 1 .. Len(trx.Y_hat) |-> to_compressed(trx.Y_hat[i])])

\* A vector of group elements read from bytes: the word at pos is its
\* length, the words after it are its elements.
read_vector(bytes, pos) ==
    IF pos > Len(bytes) THEN [ok |-> FALSE, points |-> <<>>, next |-> pos]
    ELSE Let(bytes[pos], LAMBDA len :
         IF pos + len > Len(bytes) THEN [ok |-> FALSE, points |-> <<>>, next |-> pos]
         ELSE Let([i \in 1 .. len |-> from_compressed(bytes[pos + i])], LAMBDA pts :
                  [ok |-> \A i \in 1 .. len : pts[i].some,
                   points |-> [i \in 1 .. len |-> pts[i].p],
                   next |-> pos + len + 1]))

\* Transcript::try_from reading the two G1 vectors into each other's field
Transcript_try_from_swapping_F_and_A(bytes) ==
    IF Len(bytes) = 0 THEN [ok |-> FALSE, trx |-> Unbuilt]
    ELSE Let(from_compressed(bytes[1]), LAMBDA u2 :
         Let(read_vector(bytes, 2), LAMBDA A :
         Let(read_vector(bytes, A.next), LAMBDA F :
         Let(read_vector(bytes, F.next), LAMBDA Y :
             IF u2.some /\ F.ok /\ A.ok /\ Y.ok /\ Y.next = Len(bytes) + 1
             THEN [ok |-> TRUE,
                   trx |-> [u2_hat |-> u2.p, F |-> F.points, A |-> A.points,
                            Y_hat |-> Y.points]]
             ELSE [ok |-> FALSE, trx |-> Unbuilt]))))

\* Transcript::try_from: bcs::from_bytes, an error when a point does not
\* decode, when the bytes run out or when bytes are left over
Transcript_try_from(bytes) ==
    IF Len(bytes) = 0 THEN [ok |-> FALSE, trx |-> Unbuilt]
    ELSE Let(from_compressed(bytes[1]), LAMBDA u2 :
         Let(read_vector(bytes, 2), LAMBDA F :
         Let(read_vector(bytes, F.next), LAMBDA A :
         Let(read_vector(bytes, A.next), LAMBDA Y :
             IF u2.some /\ F.ok /\ A.ok /\ Y.ok /\ Y.next = Len(bytes) + 1
             THEN [ok |-> TRUE,
                   trx |-> [u2_hat |-> u2.p, F |-> F.points, A |-> A.points,
                            Y_hat |-> Y.points]]
             ELSE [ok |-> FALSE, trx |-> Unbuilt]))))

\* The number of bytes of the ULEB128 encoding of x, which bcs writes in
\* front of every Vec: seven bits of x per byte
RECURSIVE uleb128_num_bytes(_)
uleb128_num_bytes(x) == IF x < 128 THEN 1 ELSE 1 + uleb128_num_bytes(x \div 128)

\* The number of bytes of bcs::to_bytes of a Vec of len elements of
\* elem_num_bytes bytes each
vec_num_bytes(len, elem_num_bytes) == uleb128_num_bytes(len) + len * elem_num_bytes

\* to_bytes().len() when no length is written in front of the vectors
Transcript_num_bytes_without_lengths(trx) ==
    G2_PROJ_NUM_BYTES
        + Len(trx.F) * G1_PROJ_NUM_BYTES
        + Len(trx.A) * G1_PROJ_NUM_BYTES
        + Len(trx.Y_hat) * G2_PROJ_NUM_BYTES

\* trx.to_bytes().len(): the words of Transcript_to_bytes, each counted
\* with the number of bytes it stands for
Transcript_num_bytes(trx) ==
    G2_PROJ_NUM_BYTES
        + vec_num_bytes(Len(trx.F), G1_PROJ_NUM_BYTES)
        + vec_num_bytes(Len(trx.A), G1_PROJ_NUM_BYTES)
        + vec_num_bytes(Len(trx.Y_hat), G2_PROJ_NUM_BYTES)

\* expected_vanilla_scrape_transcript_size(t, n)
expected_vanilla_scrape_transcript_size(t, n) ==
    G2_PROJ_NUM_BYTES + n * (G2_PROJ_NUM_BYTES + G1_PROJ_NUM_BYTES) + t * G1_PROJ_NUM_BYTES

\* 2^k in the scalar field
RECURSIVE pow2(_)
pow2(k) ==
    IF k = 0 THEN 1
    ELSE IF k % 2 = 0 THEN Let(pow2(k \div 2), LAMBDA h : Fmul(h, h))
    ELSE Fmul(2, pow2(k - 1))

\* acc after k rounds of acc = acc.double()
double_times(acc, k) == Gmul(acc, pow2(k))

\* Transcript::generate: the vectors are the doublings of two random
\* points, shifted by three more random points
generate(sc, g2, acc_g1, r2, r1a, r1b) ==
    Let([i \in 1 .. sc.n |-> double_times(g2, i)], LAMBDA g2_vec :
    Let([i \in 1 .. sc.n |-> double_times(acc_g1, i)], LAMBDA g1_vec :
        [u2_hat |-> g2,
         F |-> [i \in 1 .. Min(sc.t, sc.n) |-> Gadd(g1_vec[i], r1a)],
         A |-> [i \in 1 .. sc.n |-> Gadd(g1_vec[i], r1b)],
         Y_hat |-> [i \in 1 .. sc.n |-> Gadd(g2_vec[i], r2)]]))

\* deal encrypting the secret itself to every player instead of the
\* player's evaluation
deal_encrypting_the_secret(sc, pp, eks, s, dst, rnd) ==
    IF Len(eks) # sc.n \/ Len(rnd) = 0
    THEN [panic |-> TRUE, trx |-> Unbuilt]
    ELSE
        Let([rnd EXCEPT ![1] = s], LAMBDA f :
        Let(SubSeq(fft(f, sc.dom), 1, sc.n), LAMBDA f_evals :
            [panic |-> FALSE,
             trx |-> [u2_hat |-> Gmul(get_public_key_base(pp), f[1]),
                      F |-> [i \in 1 .. sc.t |-> Gmul(get_commitment_base(pp), f[i])],
                      A |-> [i \in 1 .. sc.n |-> Gmul(get_commitment_base(pp), f_evals[i])],
                      Y_hat |-> [i \in 1 .. sc.n |-> Gmul(eks[i], f[1])]]]))

\* Transcript::deal.  rnd is what random_scalars(sc.t, rng) returns.
deal(sc, pp, eks, s, dst, rnd) ==
    IF Len(eks) # sc.n \/ Len(rnd) = 0
    THEN [panic |-> TRUE, trx |-> Unbuilt]
    ELSE
        Let([rnd EXCEPT ![1] = s], LAMBDA f :
        Let(SubSeq(fft(f, sc.dom), 1, sc.n), LAMBDA f_evals :
        LET g1 == get_commitment_base(pp)
            u1_hat == get_public_key_base(pp)
        IN  [panic |-> FALSE,
             trx |-> [u2_hat |-> Gmul(u1_hat, f[1]),
                      F |-> [i \in 1 .. sc.t |-> Gmul(g1, f[i])],
                      A |-> [i \in 1 .. sc.n |-> Gmul(g1, f_evals[i])],
                      Y_hat |-> [i \in 1 .. sc.n |-> Gmul(eks[i], f_evals[i])]]]))

\* aggregate_with forgetting to add the u2_hat components
aggregate_with_keeping_u2_hat(self, sc, other) ==
    IF Len(self.A) < sc.n \/ Len(other.A) < sc.n \/ Len(self.F) < sc.t \/ Len(other.F) < sc.t
       \/ Len(self.Y_hat) < sc.n \/ Len(other.Y_hat) < sc.n
    THEN [panic |-> TRUE, trx |-> self]
    ELSE [panic |-> FALSE,
          trx |-> [u2_hat |-> self.u2_hat,
                   F |-> [i \in 1 .. Len(self.F) |->
                            IF i <= sc.t THEN Gadd(self.F[i], other.F[i]) ELSE self.F[i]],
                   A |-> [i \in 1 .. Len(self.A) |->
                            IF i <= sc.n THEN Gadd(self.A[i], other.A[i]) ELSE self.A[i]],
                   Y_hat |-> [i \in 1 .. Len(self.Y_hat) |->
                            IF i <= sc.n THEN Gadd(self.Y_hat[i], other.Y_hat[i])
                            ELSE self.Y_hat[i]]]]

\* aggregate_with forgetting to add the ciphertexts
aggregate_with_keeping_Y_hat(self, sc, other) ==
    IF Len(self.A) < sc.n \/ Len(other.A) < sc.n \/ Len(self.F) < sc.t \/ Len(other.F) < sc.t
    THEN [panic |-> TRUE, trx |-> self]
    ELSE [panic |-> FALSE,
          trx |-> [u2_hat |-> Gadd(self.u2_hat, other.u2_hat),
                   F |-> [i \in 1 .. Len(self.F) |->
                            IF i <= sc.t THEN Gadd(self.F[i], other.F[i]) ELSE self.F[i]],
                   A |-> [i \in 1 .. Len(self.A) |->
                            IF i <= sc.n THEN Gadd(self.A[i], other.A[i]) ELSE self.A[i]],
                   Y_hat |-> self.Y_hat]]

\* aggregate_with whose loop over F starts at the second coefficient
aggregate_with_skipping_first_coefficient(self, sc, other) ==
    IF \/ Len(self.A) < sc.n \/ Len(other.A) < sc.n
       \/ Len(self.Y_hat) < sc.n \/ Len(other.Y_hat) < sc.n
       \/ Len(self.F) < sc.t \/ Len(other.F) < sc.t
    THEN [panic |-> TRUE, trx |-> self]
    ELSE [panic |-> FALSE,
          trx |-> [u2_hat |-> Gadd(self.u2_hat, other.u2_hat),
                   F |-> [i \in 1 .. Len(self.F) |->
                            IF i >= 2 /\ i <= sc.t THEN Gadd(self.F[i], other.F[i])
                            ELSE self.F[i]],
                   A |-> [i \in 1 .. Len(self.A) |->
                            IF i <= sc.n THEN Gadd(self.A[i], other.A[i]) ELSE self.A[i]],
                   Y_hat |-> [i \in 1 .. Len(self.Y_hat) |->
                            IF i <= sc.n THEN Gadd(self.Y_hat[i], other.Y_hat[i])
                            ELSE self.Y_hat[i]]]]

\* aggregate_with assigning other's A instead of adding it
aggregate_with_assigning_A(self, sc, other) ==
    IF \/ Len(self.A) < sc.n \/ Len(other.A) < sc.n
       \/ Len(self.Y_hat) < sc.n \/ Len(other.Y_hat) < sc.n
       \/ Len(self.F) < sc.t \/ Len(other.F) < sc.t
    THEN [panic |-> TRUE, trx |-> self]
    ELSE [panic |-> FALSE,
          trx |-> [u2_hat |-> Gadd(self.u2_hat, other.u2_hat),
                   F |-> [i \in 1 .. Len(self.F) |->
                            IF i <= sc.t THEN Gadd(self.F[i], other.F[i]) ELSE self.F[i]],
                   A |-> [i \in 1 .. Len(self.A) |->
                            IF i <= sc.n THEN other.A[i] ELSE self.A[i]],
                   Y_hat |-> [i \in 1 .. Len(self.Y_hat) |->
                            IF i <= sc.n THEN Gadd(self.Y_hat[i], other.Y_hat[i])
                            ELSE self.Y_hat[i]]]]

\* Transcript::aggregate_with: the receiver after the call
aggregate_with(self, sc, other) ==
    IF \/ Len(self.A) < sc.n \/ Len(other.A) < sc.n
       \/ Len(self.Y_hat) < sc.n \/ Len(other.Y_hat) < sc.n
       \/ Len(self.F) < sc.t \/ Len(other.F) < sc.t
    THEN [panic |-> TRUE, trx |-> self]
    ELSE [panic |-> FALSE,
          trx |-> [u2_hat |-> Gadd(self.u2_hat, other.u2_hat),
                   F |-> [i \in 1 .. Len(self.F) |->
                            IF i <= sc.t THEN Gadd(self.F[i], other.F[i]) ELSE self.F[i]],
                   A |-> [i \in 1 .. Len(self.A) |->
                            IF i <= sc.n THEN Gadd(self.A[i], other.A[i]) ELSE self.A[i]],
                   Y_hat |-> [i \in 1 .. Len(self.Y_hat) |->
                            IF i <= sc.n THEN Gadd(self.Y_hat[i], other.Y_hat[i])
                            ELSE self.Y_hat[i]]]]

\* Transcript::get_dealt_public_key
get_dealt_public_key(trx) ==
    IF Len(trx.F) = 0 THEN [panic |-> TRUE, key |-> Identity]
    ELSE [panic |-> FALSE, key |-> trx.F[1]]

\* decrypt_own_share handing out the ciphertext instead of decrypting it
decrypt_own_share_without_dk(trx, sc, player_id, dk) ==
    IF player_id.id >= Len(trx.Y_hat) \/ player_id.id >= Len(trx.A)
    THEN [panic |-> TRUE, sk_share |-> Identity, pk_share |-> Identity]
    ELSE [panic |-> FALSE, sk_share |-> trx.Y_hat[player_id.id + 1],
          pk_share |-> trx.A[player_id.id + 1]]

\* decrypt_own_share taking the ciphertext from A instead of Y_hat
decrypt_own_share_from_A(trx, sc, player_id, dk) ==
    IF player_id.id >= Len(trx.Y_hat) \/ player_id.id >= Len(trx.A)
    THEN [panic |-> TRUE, sk_share |-> Identity, pk_share |-> Identity]
    ELSE [panic |-> FALSE, sk_share |-> Gmul(trx.A[player_id.id + 1], dk),
          pk_share |-> trx.A[player_id.id + 1]]

\* Transcript::decrypt_own_share
decrypt_own_share(trx, sc, player_id, dk) ==
    IF player_id.id >= Len(trx.Y_hat) \/ player_id.id >= Len(trx.A)
    THEN [panic |-> TRUE, sk_share |-> Identity, pk_share |-> Identity]
    ELSE
        LET ctxt == trx.Y_hat[player_id.id + 1]
            secret_key_share == Gmul(ctxt, dk)
            verification_key_share == trx.A[player_id.id + 1]
        IN  [panic |-> FALSE, sk_share |-> secret_key_share,
             pk_share |-> verification_key_share]

\* DealtSecretKey::reconstruct without assert_le!(shares.len(), n)
reconstruct_without_upper_limit(sc, shares) ==
    IF ~(Len(shares) >= sc.t)
    THEN [panic |-> TRUE, h_hat |-> Identity]
    ELSE
        Let([k \in 1 .. Len(shares) |-> shares[k].player.id], LAMBDA ids :
        Let(lagrange_coefficients_at_zero(sc.batch_dom, ids), LAMBDA lagr :
        Let([k \in 1 .. Len(shares) |-> shares[k].share], LAMBDA bases :
            [panic |-> Len(lagr) # Len(bases), h_hat |-> multi_exp(bases, lagr)])))

\* DealtSecretKey::reconstruct computing the Lagrange coefficients for the
\* ids in increasing order while the shares stay in the order given
reconstruct_with_ids_in_increasing_order(sc, shares) ==
    IF ~(Len(shares) >= sc.t) \/ ~(Len(shares) <= ThresholdConfig_get_total_num_players(sc))
    THEN [panic |-> TRUE, h_hat |-> Identity]
    ELSE
        Let([k \in 1 .. Len(shares) |->
                CHOOSE id \in {shares[j].player.id : j \in 1 .. Len(shares)} :
                    Cardinality({j \in 1 .. Len(shares) : shares[j].player.id < id}) = k - 1],
            LAMBDA ids :
        Let(lagrange_coefficients_at_zero(sc.batch_dom, ids), LAMBDA lagr :
        Let([k \in 1 .. Len(shares) |-> shares[k].share], LAMBDA bases :
            [panic |-> Len(lagr) # Len(bases), h_hat |-> multi_exp(bases, lagr)])))

\* DealtSecretKey::reconstruct.  shares is a sequence of
\* [player |-> Player, share |-> a dealt secret key share].
reconstruct(sc, shares) ==
    IF ~(Len(shares) >= sc.t) \/ ~(Len(shares) <= ThresholdConfig_get_total_num_players(sc))
    THEN [panic |-> TRUE, h_hat |-> Identity]
    ELSE
        Let([k \in 1 .. Len(shares) |-> shares[k].player.id], LAMBDA ids :
        Let(lagrange_coefficients_at_zero(sc.batch_dom, ids), LAMBDA lagr :
        Let([k \in 1 .. Len(shares) |-> shares[k].share], LAMBDA bases :
            [panic |-> Len(lagr) # Len(bases), h_hat |-> multi_exp(bases, lagr)])))

\* ------------------------------------------------------------- Fiat-Shamir

\* The dst the tests and benchmarks pass (DST_PVSS_TESTING_APP), as one word.
DST_PVSS_TESTING_APP == <<36>>

\* PVSS_DOM_SEP, as one word.
PVSS_DOM_SEP == <<21>>

\* A merlin transcript is the sequence of the messages appended so far, each
\* [label, data]; merlin::Transcript::new(dst) holds the dst.
merlin_new(dst) == <<[label |-> "dst", data |-> dst]>>

append_message(fs_t, label, bytes) == Append(fs_t, [label |-> label, data |-> bytes])

append_u64(fs_t, label, x) == Append(fs_t, [label |-> label, data |-> <<x>>])

\* merlin's state after everything appended, folded to one scalar
RECURSIVE Digest(_)
Digest(fs_t) ==
    IF fs_t = <<>> THEN 1
    ELSE Let(fs_t[Len(fs_t)].data, LAMBDA data :
             Fadd(Fmul(3, Digest(SubSeq(fs_t, 1, Len(fs_t) - 1))),
                  Fadd(Len(data), SumSeq([i \in 1 .. Len(data) |->
                                            Fmul(i + 1, data[i] % SCALAR_FIELD_ORDER)]))))

\* The hash behind merlin's challenge_bytes and hash_to_scalar is one member
\* of a family: the member H maps the digest d of the state, for the
\* challenge label l, to the scalar d + H[l].
HashInstances == [challenge_alpha : Scalars, challenge_multipairing : Scalars]

\* challenge_bytes(label) followed by hash_to_scalar: the scalar, and the
\* state after the challenge (merlin ratchets its state on every challenge)
challenge_scalar(fs_t, label, H) ==
    Let(fs_t, LAMBDA state :
        [scalar |-> Fadd(Digest(state), H[label]),
         fs_t |-> Append(state, [label |-> label, data |-> <<>>])])

\* FiatShamirProtocol::pvss_domain_sep
pvss_domain_sep(fs_t, sc) ==
    append_u64(append_u64(append_message(fs_t, "dom-sep", PVSS_DOM_SEP), "t", sc.t), "n", sc.n)

\* FiatShamirProtocol::append_public_parameters
append_public_parameters(fs_t, pp) ==
    append_message(fs_t, "pp", PublicParameters_to_bytes(pp))

\* utils::fiat_shamir::append_g2_vector
RECURSIVE append_g2_points(_, _)
append_g2_points(fs_t, vec) ==
    IF vec = <<>> THEN fs_t
    ELSE append_g2_points(append_message(fs_t, "g2_point", to_compressed(Head(vec))),
                          Tail(vec))

append_g2_vector(fs_t, label, vec) ==
    append_g2_points(append_u64(fs_t, label, Len(vec)), vec)

\* FiatShamirProtocol::append_encryption_keys
append_encryption_keys(fs_t, eks) == append_g2_vector(fs_t, "encryption-keys", eks)

\* FiatShamirProtocol::append_transcript
append_transcript(fs_t, trx) == append_message(fs_t, "transcript", Transcript_to_bytes(trx))

\* FiatShamirProtocol::challenge_lagrange_scalar
challenge_lagrange_scalar(fs_t, H) == challenge_scalar(fs_t, "challenge_alpha", H)

\* FiatShamirProtocol::challenge_multipairing_scalar
challenge_multipairing_scalar(fs_t, H) == challenge_scalar(fs_t, "challenge_multipairing", H)

\* fiat_shamir appending the transcript before the encryption keys
fiat_shamir_transcript_before_keys(trx, sc, pp, eks, dst, H) ==
    LET fs0 == merlin_new(dst)
        fs1 == pvss_domain_sep(fs0, sc)
        fs2 == append_public_parameters(fs1, pp)
        fs3 == append_transcript(fs2, trx)
        fs4 == append_encryption_keys(fs3, eks)
    IN  Let(challenge_lagrange_scalar(fs4, H), LAMBDA c1 :
        Let(challenge_multipairing_scalar(c1.fs_t, H), LAMBDA c2 :
            [alpha |-> c1.scalar, r |-> c2.scalar, fs_t |-> c2.fs_t]))

\* Transcript::fiat_shamir: (alpha, r) and the final merlin state
fiat_shamir(trx, sc, pp, eks, dst, H) ==
    LET fs0 == merlin_new(dst)
        fs1 == pvss_domain_sep(fs0, sc)
        fs2 == append_public_parameters(fs1, pp)
        fs3 == append_encryption_keys(fs2, eks)
        fs4 == append_transcript(fs3, trx)
    IN  Let(challenge_lagrange_scalar(fs4, H), LAMBDA c1 :
        Let(challenge_multipairing_scalar(c1.fs_t, H), LAMBDA c2 :
            [alpha |-> c1.scalar, r |-> c2.scalar, fs_t |-> c2.fs_t]))

\* The labels of a merlin state, in the order they were appended.
Labels(fs_t) == [i \in 1 .. Len(fs_t) |-> fs_t[i].label]

\* ------------------------------------------------------------------ verify

\* The length checks at the top of Transcript::verify: TRUE when none of
\* them returns false.
\* the length checks without the one on F
verify_lengths_without_F(trx, sc, eks) ==
    /\ ~(Len(eks) # sc.n)
    /\ \A len \in {Len(trx.A), Len(trx.Y_hat)} : ~(len # sc.n)

verify_lengths(trx, sc, eks) ==
    /\ ~(Len(eks) # sc.n)
    /\ \A len \in {Len(trx.A), Len(trx.Y_hat)} : ~(len # sc.n)
    /\ ~(Len(trx.F) # sc.t)

\* alpha^0, alpha^1, ..., alpha^(t-1): one is pushed first, then t - 1 more
verify_alphas(sc, alpha) ==
    [j \in 1 .. (IF sc.t >= 1 THEN sc.t ELSE 1) |-> Fpow(alpha, j - 1)]

\* The multiexp that checks the evaluation commitments A against the
\* coefficient commitments F:
\*   prod A_i^{lagr[i]} prod F_j^{-alpha^j}, to be compared with the identity
verify_low_degree(trx, sc, alpha) ==
    LET lagr == IF is_power_of_two(sc.n)
                THEN all_n_lagrange_coefficients(sc.batch_dom, alpha)
                ELSE lagrange_coefficients(sc.batch_dom, [i \in 1 .. sc.n |-> i - 1], alpha)
        bases == trx.A \o trx.F
    IN  Let(verify_alphas(sc, alpha), LAMBDA alphas :
        Let(lagr \o [j \in 1 .. Len(alphas) |-> Fneg(alphas[j])], LAMBDA scalars :
            multi_exp(bases, scalars)))


\* the multi-pairing check keeping only its last two pairs, those of F[0]
\* and u2_hat: the ciphertexts and the encryption keys are left unchecked
verify_encryptions_of_u2_hat_only(trx, sc, pp, eks, r) ==
    Let(Gneg(get_commitment_base(pp)), LAMBDA g1_inverse :
    Let(Fpow(r, sc.n), LAMBDA r_n :
        multi_pairing(<< <<Gmul(trx.F[1], r_n), get_public_key_base(pp)>>,
                         <<Gmul(g1_inverse, r_n), trx.u2_hat>> >>)))

\* The multi-pairing that checks the encryptions:
\*   prod e(g_1^{-r_i}, Y_hat_i) e(A_i^{r_i}, ek_i)
\*        e(F_0^{r_n}, u1_hat) e(g_1^{-r_n}, u2_hat), with r_i = r^i
verify_encryptions(trx, sc, pp, eks, r) ==
    Let(Gneg(get_commitment_base(pp)), LAMBDA g1_inverse :
    Let([i \in 1 .. sc.n + 1 |-> Fpow(r, i - 1)], LAMBDA r_i :
    Let([i \in 1 .. sc.n |-> Gmul(g1_inverse, r_i[i])]
            \o [i \in 1 .. sc.n |-> Gmul(trx.A[i], r_i[i])]
            \o <<Gmul(trx.F[1], r_i[sc.n + 1])>>
            \o <<Gmul(g1_inverse, r_i[sc.n + 1])>>, LAMBDA lhs :
    Let(trx.Y_hat \o eks \o <<get_public_key_base(pp)>> \o <<trx.u2_hat>>, LAMBDA rhs :
    Let([i \in 1 .. Min(Len(lhs), Len(rhs)) |-> <<lhs[i], rhs[i]>>], LAMBDA pairs :
        multi_pairing(pairs))))))

\* Transcript::verify under the hash H.  ok is the boolean returned; panic
\* tells that the call aborted instead of returning; fs lists the labels
\* given to merlin and work the group computations done, in order.
verify(trx, sc, pp, eks, dst, H) ==
    IF ~ verify_lengths(trx, sc, eks)
    THEN [ok |-> FALSE, panic |-> FALSE, fs |-> <<>>, work |-> <<>>]
    ELSE
        Let(fiat_shamir(trx, sc, pp, eks, dst, H), LAMBDA ch :
        Let(Labels(ch.fs_t), LAMBDA fs :
            IF verify_low_degree(trx, sc, ch.alpha) # Identity
            THEN [ok |-> FALSE, panic |-> FALSE, fs |-> fs, work |-> <<"multi_exp">>]
            ELSE IF Len(trx.F) = 0
            THEN [ok |-> FALSE, panic |-> TRUE, fs |-> fs, work |-> <<"multi_exp">>]
            ELSE IF verify_encryptions(trx, sc, pp, eks, ch.r) # Identity
            THEN [ok |-> FALSE, panic |-> FALSE, fs |-> fs,
                  work |-> <<"multi_exp", "multi_miller_loop">>]
            ELSE [ok |-> TRUE, panic |-> FALSE, fs |-> fs,
                  work |-> <<"multi_exp", "multi_miller_loop">>]))

\* -------------------------------------------------------- weighted config

RECURSIVE Sum(_)
Sum(s) == IF s = <<>> THEN 0 ELSE Head(s) + Sum(Tail(s))

\* WeightedConfig::new, the loop
\*   for w in weight.iter() { starting_index.push(starting_index.last() + w) }
RECURSIVE push_starting_indices(_, _)
push_starting_indices(starting_index, weight) ==
    IF weight = <<>> THEN starting_index
    ELSE push_starting_indices(
             Append(starting_index, starting_index[Len(starting_index)] + Head(weight)),
             Tail(weight))

\* Vec::pop
pop(v) == SubSeq(v, 1, Len(v) - 1)

\* WeightedConfig::new with the first entry of the table removed instead of
\* the last one
WeightedConfig_new_popping_the_front(w, n, weight) ==
    [tc |-> ThresholdConfig_new(w, Sum(weight)),
     n |-> n,
     weight |-> weight,
     starting_index |-> Tail(push_starting_indices(<<0>>, weight))]

\* WeightedConfig::new
WeightedConfig_new(w, n, weight) ==
    [tc |-> ThresholdConfig_new(w, Sum(weight)),
     n |-> n,
     weight |-> weight,
     starting_index |-> pop(push_starting_indices(<<0>>, weight))]

get_threshold_config(config) == config.tc

get_threshold_weight(config) == config.tc.t

get_total_weight(config) == config.tc.n

\* WeightedConfig::get_player_weight: self.weight[player.id]
get_player_weight(config, player) ==
    IF player.id >= Len(config.weight) THEN [panic |-> TRUE, weight |-> 0]
    ELSE [panic |-> FALSE, weight |-> config.weight[player.id + 1]]

\* SecretSharingConfig::get_total_num_players for WeightedConfig
WeightedConfig_get_total_num_players(config) == config.n

\* SecretSharingConfig::get_player for WeightedConfig
WeightedConfig_get_player(config, i) ==
    get_player(WeightedConfig_get_total_num_players(config), i)

\* WeightedConfig::get_virtual_player
get_virtual_player(config, player, i) ==
    IF player.id >= Len(config.starting_index) THEN [panic |-> TRUE, player |-> Player(0)]
    ELSE WeightedConfig_get_player(config, config.starting_index[player.id + 1] + i)

\* ------------------------------------------------------ weighted wrapper

\* to_weighted_encryption_keys repeating the whole vector of keys: the keys
\* of the players in turn, once per unit of the largest weight
to_weighted_encryption_keys_interleaved(config, eks) ==
    Let([k \in 1 .. Len(eks) |-> WeightedConfig_get_player(config, k - 1)], LAMBDA players :
    Let([k \in 1 .. Len(eks) |-> get_player_weight(config, players[k].player)],
        LAMBDA num_shares :
        IF \E k \in 1 .. Len(eks) : players[k].panic \/ num_shares[k].panic
        THEN [panic |-> TRUE, eks |-> <<>>]
        ELSE [panic |-> FALSE,
              eks |-> Flatten([j \in 1 .. get_total_weight(config) |->
                         Flatten([k \in 1 .. Len(eks) |->
                            IF j <= num_shares[k].weight THEN <<eks[k]>> ELSE <<>>])])]))

\* Weighted::to_weighted_encryption_keys: every key repeated as many times
\* as its player's weight; get_player and get_player_weight are called for
\* every position of eks
to_weighted_encryption_keys(config, eks) ==
    Let([k \in 1 .. Len(eks) |-> WeightedConfig_get_player(config, k - 1)], LAMBDA players :
    Let([k \in 1 .. Len(eks) |-> get_player_weight(config, players[k].player)],
        LAMBDA num_shares :
        IF \E k \in 1 .. Len(eks) : players[k].panic \/ num_shares[k].panic
        THEN [panic |-> TRUE, eks |-> <<>>]
        ELSE [panic |-> FALSE,
              eks |-> Flatten([k \in 1 .. Len(eks) |->
                                 [j \in 1 .. num_shares[k].weight |-> eks[k]]])]))

\* Weighted::deal
Weighted_deal(config, pp, eks, s, dst, rnd) ==
    Let(to_weighted_encryption_keys(config, eks), LAMBDA duplicated_eks :
        IF duplicated_eks.panic THEN [panic |-> TRUE, trx |-> Unbuilt]
        ELSE deal(get_threshold_config(config), pp, duplicated_eks.eks, s, dst, rnd))

\* Weighted::verify
Weighted_verify(trx, config, pp, eks, dst, H) ==
    Let(to_weighted_encryption_keys(config, eks), LAMBDA duplicated_eks :
        IF duplicated_eks.panic
        THEN [ok |-> FALSE, panic |-> TRUE, fs |-> <<>>, work |-> <<>>]
        ELSE verify(trx, get_threshold_config(config), pp, duplicated_eks.eks, dst, H))

\* Weighted::decrypt_own_share: the loop runs over 0 .. get_total_weight()
Weighted_decrypt_own_share(trx, config, player_id, dk) ==
    Let(get_total_weight(config), LAMBDA weight :
    Let([i \in 1 .. weight |-> get_virtual_player(config, player_id, i - 1)],
        LAMBDA virtual_player :
    Let([i \in 1 .. weight |->
            decrypt_own_share(trx, get_threshold_config(config),
                              virtual_player[i].player, dk)], LAMBDA inner :
        IF \E i \in 1 .. weight : virtual_player[i].panic \/ inner[i].panic
        THEN [panic |-> TRUE, sk_share |-> <<>>, pk_share |-> <<>>]
        ELSE [panic |-> FALSE,
              sk_share |-> [i \in 1 .. weight |-> inner[i].sk_share],
              pk_share |-> [i \in 1 .. weight |-> inner[i].pk_share]])))

\* Wrapped::reconstruct.  shares is a sequence of
\* [player |-> Player, share |-> the vector of the player's shares].
Wrapped_reconstruct(config, shares) ==
    Let(Flatten([k \in 1 .. Len(shares) |->
                   [pos \in 1 .. Len(shares[k].share) |->
                      [virtual_player |-> get_virtual_player(config, shares[k].player, pos - 1),
                       share |-> shares[k].share[pos]]]]), LAMBDA flat :
        IF \E k \in 1 .. Len(flat) : flat[k].virtual_player.panic
        THEN [panic |-> TRUE, h_hat |-> Identity]
        ELSE reconstruct(get_threshold_config(config),
                         [k \in 1 .. Len(flat) |->
                            [player |-> flat[k].virtual_player.player,
                             share |-> flat[k].share]]))

\* ------------------------------------------------------------------- state

VARIABLES
    wc,        \* the WeightedConfig
    sc,        \* the ThresholdConfig
    dks,       \* the players' decryption keys, dks[i + 1] for player i
    eks,       \* the encryption keys handed to verify
    trx,       \* the two transcripts, trx.first and trx.second
    st,        \* per transcript: "unbuilt", "dealt", "aggregated" or "received"
    secrets,   \* per transcript: the input secrets dealt into it
    naggr,     \* how many times first.aggregate_with(second) has run
    ret        \* what the last operation returned

vars == <<wc, sc, dks, eks, trx, st, secrets, naggr, ret>>

Slots == {"first", "second"}

pp == PublicParameters_default

\* The encryption keys the dealer and the verifiers are given.
eks_of(keys) == setup_eks(keys, pp)

\* The members of a set of player ids, in increasing order.
RECURSIVE SortedSeq(_)
SortedSeq(S) ==
    IF S = {} THEN <<>>
    ELSE LET m == CHOOSE x \in S : \A y \in S : x <= y
         IN  <<m>> \o SortedSeq(S \ {m})

\* The permutations of a set, as sequences.
PermutationsOf(S) ==
    {p \in [1 .. Cardinality(S) -> S] : \A i, j \in 1 .. Cardinality(S) : p[i] = p[j] => i = j}

\* verify and reconstruct take &self and change nothing: the state after one
\* of them differs from the state before it in ret alone, and no operation
\* reads ret. The behaviours are therefore explored from the states reached
\* by the operations that build transcripts, each query being looked at in
\* the state that follows it.
Queries == {"verify", "reconstruct", "weighted_verify", "weighted_decrypt_own_share",
            "weighted_reconstruct", "get_virtual_player", "get_player",
            "round_trip", "transcript_size", "decrypt_own_share",
            "get_dealt_public_key", "to_bytes", "aggregate_orders",
            "reconstruct_orders"}
NoQueryPending == ret.op \notin Queries

\* get_threshold_configs_for_testing, widened to every 1 <= t <= n <= MaxN
Init ==
    /\ \E n \in 1 .. MaxN : \E t \in 1 .. n : sc = ThresholdConfig_new(t, n)
    /\ wc = WeightedConfig_new(sc.t, sc.n, [i \in 1 .. sc.n |-> 1])
    /\ \E seed \in 0 .. MaxDkSeed : dks = generate_dks(sc.n, seed)
    /\ eks = eks_of(dks)
    /\ trx = [first |-> Unbuilt, second |-> Unbuilt]
    /\ st = [first |-> "unbuilt", second |-> "unbuilt"]
    /\ secrets = [first |-> <<>>, second |-> <<>>]
    /\ naggr = 0
    /\ ret = [op |-> "none"]

\* T::deal(&sc, &pp, &eks, s, dst, &mut rng) into an unbuilt transcript
Deal(slot) ==
    /\ NoQueryPending
    /\ st[slot] = "unbuilt"
    /\ slot = "second" => st.first # "unbuilt"
    /\ \E s \in Scalars : \E rnd \in [1 .. sc.t -> 0 .. MaxRnd] :
         \E res \in {deal(sc, pp, eks, s, DST_PVSS_TESTING_APP, rnd)} :
             /\ trx' = [trx EXCEPT ![slot] = res.trx]
             /\ st' = [st EXCEPT ![slot] = IF res.panic THEN "unbuilt" ELSE "dealt"]
             /\ secrets' = [secrets EXCEPT ![slot] = <<s>>]
             /\ ret' = [op |-> "deal", slot |-> slot, panic |-> res.panic]
    /\ UNCHANGED <<wc, sc, dks, eks, naggr>>

\* trx.verify(&sc, &pp, &eks, dst), the hash being any member of its family
Verify(slot) ==
    /\ NoQueryPending
    /\ st[slot] # "unbuilt"
    /\ \E H \in HashInstances :
         \E res \in {verify(trx[slot], sc, pp, eks, DST_PVSS_TESTING_APP, H)} :
             ret' = [op |-> "verify", slot |-> slot, ok |-> res.ok, panic |-> res.panic,
                     fs |-> res.fs, work |-> res.work]
    /\ UNCHANGED <<wc, sc, dks, eks, trx, st, secrets, naggr>>

\* first.aggregate_with(&sc, &second) leaving second emptied
Aggregate_taking_other ==
    /\ NoQueryPending
    /\ st.first # "unbuilt"
    /\ st.second # "unbuilt"
    /\ naggr < MaxAggr
    /\ \E res \in {aggregate_with(trx.first, sc, trx.second)} :
           /\ trx' = [first |-> res.trx, second |-> Unbuilt]
           /\ st' = [st EXCEPT !.first = "aggregated"]
           /\ secrets' = [secrets EXCEPT !.first = secrets.first \o secrets.second]
           /\ ret' = [op |-> "aggregate_with", panic |-> res.panic]
    /\ naggr' = naggr + 1
    /\ UNCHANGED <<wc, sc, dks, eks>>

\* first.aggregate_with(&sc, &second)
Aggregate ==
    /\ NoQueryPending
    /\ st.first # "unbuilt"
    /\ st.second # "unbuilt"
    /\ naggr < MaxAggr
    /\ \E res \in {aggregate_with(trx.first, sc, trx.second)} :
           /\ trx' = [trx EXCEPT !.first = res.trx]
           /\ st' = [st EXCEPT !.first = "aggregated"]
           /\ secrets' = [secrets EXCEPT !.first = secrets.first \o secrets.second]
           /\ ret' = [op |-> "aggregate_with", panic |-> res.panic]
    /\ naggr' = naggr + 1
    /\ UNCHANGED <<wc, sc, dks, eks>>

\* The shares of the players of a sequence: each calls decrypt_own_share
\* with its own decryption key.
decrypt_shares(t, config, players, keys) ==
    [k \in 1 .. Len(players) |->
        decrypt_own_share(t, config, Player(players[k]), keys[players[k] + 1])]

\* pvss_deal_verify_and_reconstruct, from the decryption on: the players of
\* S decrypt their shares and DealtSecretKey::reconstruct combines them
Reconstruct(slot) ==
    /\ NoQueryPending
    /\ st[slot] # "unbuilt"
    /\ \E S \in SUBSET (0 .. sc.n - 1) :
         /\ S # {}
         /\ \E players \in {SortedSeq(S)} :
            \E dec \in {decrypt_shares(trx[slot], sc, players, dks)} :
            \E shares \in {[k \in 1 .. Len(players) |->
                              [player |-> Player(players[k]), share |-> dec[k].sk_share]]} :
            \E res \in {reconstruct(sc, shares)} :
                ret' = [op |-> "reconstruct", slot |-> slot, players |-> players,
                        panic |-> (res.panic \/ \E k \in 1 .. Len(dec) : dec[k].panic),
                        key |-> res.h_hat]
    /\ UNCHANGED <<wc, sc, dks, eks, trx, st, secrets, naggr>>

Next ==
    \/ \E slot \in Slots : Deal(slot)
    \/ \E slot \in Slots : Verify(slot)
    \/ Aggregate
    \/ \E slot \in Slots : Reconstruct(slot)

Spec == Init /\ [][Next]_vars

----------------------------------------------------------------------------
(* A verifier facing tampering: the dealt transcript is trx.first; what    *)
(* arrives over the wire is trx.second; eks is what the verifier is given. *)
(* One tampering is studied at a time: the bytes are tampered with while   *)
(* the verifier holds the dealing keys, the keys are substituted while no  *)
(* tampered transcript has arrived, and one transcript arrives.            *)

\* One word of the serialization of the dealt transcript is replaced by
\* another one; the result arrives if Transcript::try_from accepts it.
FlipByte ==
    /\ NoQueryPending
    /\ st.first = "dealt"
    /\ st.second = "unbuilt"
    /\ eks = eks_of(dks)
    /\ \E bytes \in {Transcript_to_bytes(trx.first)} :
       \E pos \in 1 .. Len(bytes) : \E w \in Words \ {bytes[pos]} :
       \E parsed \in {Transcript_try_from([bytes EXCEPT ![pos] = w])} :
           /\ parsed.ok
           /\ trx' = [trx EXCEPT !.second = parsed.trx]
           /\ st' = [st EXCEPT !.second = "received"]
           /\ ret' = [op |-> "try_from", ok |-> parsed.ok]
    /\ UNCHANGED <<wc, sc, dks, eks, secrets, naggr>>

\* The bytes that arrive encode the dealt transcript with one of its
\* vectors an element shorter or an element longer.
Resize ==
    /\ NoQueryPending
    /\ st.first = "dealt"
    /\ st.second = "unbuilt"
    /\ eks = eks_of(dks)
    /\ \E field \in {"F", "A", "Y_hat"} :
       \E vec \in {SubSeq(trx.first[field], 1, Len(trx.first[field]) - 1)}
                     \cup {Append(trx.first[field], g) : g \in GroupElements} :
       \E parsed \in {Transcript_try_from(
                         Transcript_to_bytes([trx.first EXCEPT ![field] = vec]))} :
           /\ parsed.ok
           /\ trx' = [trx EXCEPT !.second = parsed.trx]
           /\ st' = [st EXCEPT !.second = "received"]
           /\ ret' = [op |-> "try_from", ok |-> parsed.ok]
    /\ UNCHANGED <<wc, sc, dks, eks, secrets, naggr>>

\* The verifier is given encryption keys other than the dealing ones: one
\* key replaced, the last key missing, or a key too many.
SubstituteEks ==
    /\ NoQueryPending
    /\ st.first = "dealt"
    /\ st.second = "unbuilt"
    /\ \E honest \in {eks_of(dks)} :
       \E other \in {[honest EXCEPT ![i] = g] :
                        i \in 1 .. Len(honest), g \in GroupElements}
                     \cup {SubSeq(honest, 1, Len(honest) - 1)}
                     \cup {Append(honest, g) : g \in GroupElements} :
           /\ other # eks
           /\ eks' = other
    /\ ret' = [op |-> "eks"]
    /\ UNCHANGED <<wc, sc, dks, trx, st, secrets, naggr>>

\* The verifier verifies what arrived: the tampered transcript if there is
\* one, the dealt transcript otherwise.
Arrived == IF st.second = "received" THEN "second" ELSE "first"

NextT ==
    \/ Deal("first")
    \/ FlipByte
    \/ Resize
    \/ SubstituteEks
    \/ Verify(Arrived)

SpecT == Init /\ [][NextT]_vars

----------------------------------------------------------------------------
(* The Weighted wrapper over the SCRAPE transcript: the transcript is      *)
(* trx.first, dealt for the w-out-of-W configuration of wc.                *)

MaxWeight == 2

\* The evaluation domain of the scaled-down field has at most
\* SCALAR_FIELD_ORDER - 1 points.
MaxTotalWeight == SCALAR_FIELD_ORDER - 1

WeightVectors ==
    {weight \in UNION {[1 .. n -> 1 .. MaxWeight] : n \in 1 .. MaxN} :
        Sum(weight) <= MaxTotalWeight}

InitW ==
    /\ \E weight \in WeightVectors : \E w \in 1 .. Sum(weight) :
          wc = WeightedConfig_new(w, Len(weight), weight)
    /\ sc = get_threshold_config(wc)
    /\ \E seed \in 0 .. MaxDkSeed : dks = generate_dks(wc.n, seed)
    /\ eks = eks_of(dks)
    /\ trx = [first |-> Unbuilt, second |-> Unbuilt]
    /\ st = [first |-> "unbuilt", second |-> "unbuilt"]
    /\ secrets = [first |-> <<>>, second |-> <<>>]
    /\ naggr = 0
    /\ ret = [op |-> "none"]

\* Weighted::deal
WDeal ==
    /\ NoQueryPending
    /\ st.first = "unbuilt"
    /\ ret.op = "none"
    /\ \E s \in Scalars : \E rnd \in [1 .. get_threshold_weight(wc) -> 0 .. MaxRnd] :
         \E res \in {Weighted_deal(wc, pp, eks, s, DST_PVSS_TESTING_APP, rnd)} :
         \E duplicated_eks \in {to_weighted_encryption_keys(wc, eks)} :
             /\ trx' = [trx EXCEPT !.first = res.trx]
             /\ st' = [st EXCEPT !.first = IF res.panic THEN "unbuilt" ELSE "dealt"]
             /\ secrets' = [secrets EXCEPT !.first = <<s>>]
             /\ ret' = [op |-> "weighted_deal", panic |-> res.panic,
                        duplicated_eks |-> duplicated_eks]
    /\ UNCHANGED <<wc, sc, dks, eks, naggr>>

\* The verifier is given a key too few or a key too many.
WrongNumberOfEks ==
    /\ NoQueryPending
    /\ st.first = "dealt"
    /\ eks = eks_of(dks)
    /\ eks' \in {SubSeq(eks, 1, Len(eks) - 1)} \cup {Append(eks, g) : g \in GroupElements}
    /\ ret' = [op |-> "eks"]
    /\ UNCHANGED <<wc, sc, dks, trx, st, secrets, naggr>>

\* Weighted::verify
WVerify ==
    /\ NoQueryPending
    /\ st.first = "dealt"
    /\ \E H \in HashInstances :
         \E res \in {Weighted_verify(trx.first, wc, pp, eks, DST_PVSS_TESTING_APP, H)} :
         \E duplicated_eks \in {to_weighted_encryption_keys(wc, eks)} :
             ret' = [op |-> "weighted_verify", slot |-> "first", ok |-> res.ok,
                     panic |-> res.panic, fs |-> res.fs, work |-> res.work,
                     duplicated_eks |-> duplicated_eks]
    /\ UNCHANGED <<wc, sc, dks, eks, trx, st, secrets, naggr>>

\* Weighted::decrypt_own_share, called by a player with its own key
WDecrypt ==
    /\ NoQueryPending
    /\ st.first = "dealt"
    /\ \E p \in 0 .. wc.n - 1 :
         \E res \in {Weighted_decrypt_own_share(trx.first, wc, Player(p), dks[p + 1])} :
             ret' = [op |-> "weighted_decrypt_own_share", player |-> p,
                     panic |-> res.panic, sk_share |-> res.sk_share,
                     pk_share |-> res.pk_share]
    /\ UNCHANGED <<wc, sc, dks, eks, trx, st, secrets, naggr>>

\* The players of S call decrypt_own_share and Wrapped::reconstruct combines
\* their share vectors
WReconstruct ==
    /\ NoQueryPending
    /\ st.first = "dealt"
    /\ \E S \in SUBSET (0 .. wc.n - 1) :
         /\ S # {}
         /\ \E players \in {SortedSeq(S)} :
            \E dec \in {[k \in 1 .. Len(players) |->
                           Weighted_decrypt_own_share(trx.first, wc, Player(players[k]),
                                                      dks[players[k] + 1])]} :
            \E shares \in {[k \in 1 .. Len(players) |->
                              [player |-> Player(players[k]), share |-> dec[k].sk_share]]} :
            \E res \in {Wrapped_reconstruct(wc, shares)} :
                ret' = [op |-> "weighted_reconstruct", players |-> players,
                        panic |-> (res.panic \/ \E k \in 1 .. Len(dec) : dec[k].panic),
                        key |-> res.h_hat]
    /\ UNCHANGED <<wc, sc, dks, eks, trx, st, secrets, naggr>>

\* WeightedConfig::get_virtual_player(player, i) for i below the player's
\* weight
GetVirtualPlayer ==
    /\ NoQueryPending
    /\ \E p \in 0 .. wc.n - 1 : \E i \in 0 .. wc.weight[p + 1] - 1 :
         \E res \in {get_virtual_player(wc, Player(p), i)} :
             ret' = [op |-> "get_virtual_player", player |-> p, i |-> i,
                     panic |-> res.panic, id |-> res.player.id]
    /\ UNCHANGED <<wc, sc, dks, eks, trx, st, secrets, naggr>>

\* WeightedConfig::get_virtual_player(player, i) for i at or above the
\* player's weight
GetVirtualPlayerBeyondWeight ==
    /\ NoQueryPending
    /\ \E p \in 0 .. wc.n - 1 : \E i \in wc.weight[p + 1] .. MaxTotalWeight :
         \E res \in {get_virtual_player(wc, Player(p), i)} :
             ret' = [op |-> "get_virtual_player", player |-> p, i |-> i,
                     panic |-> res.panic, id |-> res.player.id]
    /\ UNCHANGED <<wc, sc, dks, eks, trx, st, secrets, naggr>>

NextW ==
    \/ WDeal
    \/ WrongNumberOfEks
    \/ WVerify
    \/ WDecrypt
    \/ WReconstruct
    \/ GetVirtualPlayer
    \/ GetVirtualPlayerBeyondWeight

SpecW == InitW /\ [][NextW]_vars

----------------------------------------------------------------------------
(* The configurations on their own: the constructors and get_player,       *)
(* called with arguments of every kind.                                    *)

InitC ==
    /\ wc = WeightedConfig_new(1, 1, <<1>>)
    /\ sc = ThresholdConfig_new(1, 1)
    /\ dks = <<>>
    /\ eks = <<>>
    /\ trx = [first |-> Unbuilt, second |-> Unbuilt]
    /\ st = [first |-> "unbuilt", second |-> "unbuilt"]
    /\ secrets = [first |-> <<>>, second |-> <<>>]
    /\ naggr = 0
    /\ ret = [op |-> "none"]

\* ThresholdConfig::new(t, n)
NewThresholdConfig ==
    /\ NoQueryPending
    /\ \E n \in 1 .. MaxN : \E t \in 0 .. MaxN + 1 :
         /\ sc' = ThresholdConfig_new(t, n)
         /\ ret' = [op |-> "threshold_config_new", t |-> t, n |-> n]
    /\ UNCHANGED <<wc, dks, eks, trx, st, secrets, naggr>>

\* WeightedConfig::new(w, n, weight)
NewWeightedConfig ==
    /\ NoQueryPending
    /\ \E weight \in WeightVectors : \E n \in 1 .. MaxN :
       \E w \in 0 .. MaxTotalWeight + 1 :
         /\ wc' = WeightedConfig_new(w, n, weight)
         /\ ret' = [op |-> "weighted_config_new", w |-> w, n |-> n, weight |-> weight]
    /\ UNCHANGED <<sc, dks, eks, trx, st, secrets, naggr>>

\* ThresholdConfig::get_player(i)
GetPlayer ==
    /\ NoQueryPending
    /\ \E i \in 0 .. MaxN + 1 :
         \E res \in {get_player(ThresholdConfig_get_total_num_players(sc), i)} :
             ret' = [op |-> "get_player", config |-> "threshold", i |-> i,
                     n |-> ThresholdConfig_get_total_num_players(sc),
                     panic |-> res.panic, id |-> res.player.id]
    /\ UNCHANGED <<wc, sc, dks, eks, trx, st, secrets, naggr>>

\* WeightedConfig::get_player(i)
WeightedGetPlayer ==
    /\ NoQueryPending
    /\ \E i \in 0 .. MaxTotalWeight + 1 :
         \E res \in {WeightedConfig_get_player(wc, i)} :
             ret' = [op |-> "get_player", config |-> "weighted", i |-> i,
                     n |-> WeightedConfig_get_total_num_players(wc),
                     panic |-> res.panic, id |-> res.player.id]
    /\ UNCHANGED <<wc, sc, dks, eks, trx, st, secrets, naggr>>

\* WeightedConfig::get_virtual_player(player, i), the other place where a
\* configuration makes a Player
VirtualGetPlayer ==
    /\ NoQueryPending
    /\ \E p \in 0 .. MaxN - 1 : \E i \in 0 .. MaxTotalWeight :
         \E res \in {get_virtual_player(wc, Player(p), i)} :
             ret' = [op |-> "get_player", config |-> "virtual", player |-> p, i |-> i,
                     n |-> WeightedConfig_get_total_num_players(wc),
                     panic |-> res.panic, id |-> res.player.id]
    /\ UNCHANGED <<wc, sc, dks, eks, trx, st, secrets, naggr>>

NextC ==
    \/ NewThresholdConfig
    \/ NewWeightedConfig
    \/ GetPlayer
    \/ WeightedGetPlayer
    \/ VirtualGetPlayer

SpecC == InitC /\ [][NextC]_vars

----------------------------------------------------------------------------
(* Serialization: transcripts that are dealt, aggregated or generated are  *)
(* written to bytes, read back and measured.                               *)

BEST_CASE_THRESHOLD == 333
BEST_CASE_N == 1000
WORST_CASE_THRESHOLD == 3333
WORST_CASE_N == 10000

\* T::generate(&sc, &mut rng)
Generate ==
    /\ NoQueryPending
    /\ st.first = "unbuilt"
    /\ \E rnd \in [1 .. 5 -> 0 .. MaxRnd] :
         trx' = [trx EXCEPT !.first = generate(sc, rnd[1], rnd[2], rnd[3], rnd[4], rnd[5])]
    /\ st' = [st EXCEPT !.first = "generated"]
    /\ ret' = [op |-> "generate"]
    /\ UNCHANGED <<wc, sc, dks, eks, secrets, naggr>>

\* transcript_serialization: to_bytes, try_from, and to_bytes of the result
RoundTrip(slot) ==
    /\ NoQueryPending
    /\ st[slot] # "unbuilt"
    /\ \E bytes \in {Transcript_to_bytes(trx[slot])} :
       \E res \in {Transcript_try_from(bytes)} :
           ret' = [op |-> "round_trip", slot |-> slot, bytes |-> bytes, ok |-> res.ok,
                   trx |-> res.trx, bytes_again |-> Transcript_to_bytes(res.trx)]
    /\ UNCHANGED <<wc, sc, dks, eks, trx, st, secrets, naggr>>

\* trx.to_bytes().len() next to expected_vanilla_scrape_transcript_size
TranscriptSize(slot) ==
    /\ NoQueryPending
    /\ st[slot] # "unbuilt"
    /\ ret' = [op |-> "transcript_size", t |-> sc.t, n |-> sc.n,
               words |-> Len(Transcript_to_bytes(trx[slot])),
               actual |-> Transcript_num_bytes(trx[slot]),
               expected |-> expected_vanilla_scrape_transcript_size(sc.t, sc.n)]
    /\ UNCHANGED <<wc, sc, dks, eks, trx, st, secrets, naggr>>

\* scrape_transcript_size: transcript_size and
\* expected_vanilla_scrape_transcript_size for the two named configurations
scrape_transcript_size ==
    /\ ret.op = "none"
    /\ \E c \in {<<BEST_CASE_THRESHOLD, BEST_CASE_N>>, <<WORST_CASE_THRESHOLD, WORST_CASE_N>>} :
       \E rnd \in 0 .. MaxRnd :
       \E big \in {generate(ThresholdConfig_new(c[1], c[2]), rnd, rnd, rnd, rnd, rnd)} :
           ret' = [op |-> "transcript_size", t |-> c[1], n |-> c[2],
                   words |-> 4 + Len(big.F) + Len(big.A) + Len(big.Y_hat),
                   actual |-> Transcript_num_bytes(big),
                   expected |-> expected_vanilla_scrape_transcript_size(c[1], c[2])]
    /\ UNCHANGED <<wc, sc, dks, eks, trx, st, secrets, naggr>>

NextS ==
    \/ \E slot \in Slots : Deal(slot)
    \/ Aggregate
    \/ Generate
    \/ \E slot \in Slots : RoundTrip(slot)
    \/ \E slot \in Slots : TranscriptSize(slot)
    \/ scrape_transcript_size

SpecS == Init /\ [][NextS]_vars

----------------------------------------------------------------------------
(* The public parameters: written to bytes and read back, and read from    *)
(* byte slices of every kind.                                              *)

\* The lengths of the byte slices given to PublicParameters::try_from
SliceLengths ==
    {0, G1_PROJ_NUM_BYTES, G2_PROJ_NUM_BYTES, NUM_BYTES - 1, NUM_BYTES, NUM_BYTES + 1,
     2 * NUM_BYTES}

\* PublicParameters::try_from(pp.to_bytes()) for the parameters of a seed
PublicParametersRoundTrip ==
    /\ ret.op = "none"
    /\ \E h1_hat \in GroupElements, u1_hat \in GroupElements, g1 \in GroupElements :
       \E params \in {new_from_seed(h1_hat, u1_hat, g1)} :
       \E bytes \in {PublicParameters_byte_slice(params)} :
       \E res \in {PublicParameters_try_from(bytes)} :
           ret' = [op |-> "pp_round_trip", pp |-> params, num_bytes |-> bytes.num_bytes,
                   words |-> bytes.words, ok |-> res.ok, err |-> res.err,
                   panic |-> res.panic,
                   enc |-> get_encryption_key_base(res.pp),
                   u1_hat |-> get_public_key_base(res.pp),
                   g1 |-> get_commitment_base(res.pp)]
    /\ UNCHANGED <<wc, sc, dks, eks, trx, st, secrets, naggr>>

\* PublicParameters::try_from(bytes) for a byte slice of any length and
\* content
PublicParametersTryFrom ==
    /\ ret.op = "none"
    /\ \E num_bytes \in SliceLengths : \E words \in [1 .. 3 -> Words] :
       \E res \in {PublicParameters_try_from([num_bytes |-> num_bytes, words |-> words])} :
           ret' = [op |-> "pp_try_from", num_bytes |-> num_bytes, words |-> words,
                   ok |-> res.ok, err |-> res.err, panic |-> res.panic, pp |-> res.pp]
    /\ UNCHANGED <<wc, sc, dks, eks, trx, st, secrets, naggr>>

NextP ==
    \/ PublicParametersRoundTrip
    \/ PublicParametersTryFrom

SpecP == InitC /\ [][NextP]_vars

----------------------------------------------------------------------------
(* The contracts of deal: both schemes are given encryption keys of every  *)
(* number, for weights that may be zero.                                   *)

WeightVectorsWithZero ==
    {weight \in UNION {[1 .. n -> 0 .. MaxWeight] : n \in 1 .. MaxN} :
        Sum(weight) >= 1 /\ Sum(weight) <= MaxTotalWeight}

InitD ==
    /\ \E weight \in WeightVectorsWithZero : \E w \in 1 .. Sum(weight) :
          wc = WeightedConfig_new(w, Len(weight), weight)
    /\ sc = get_threshold_config(wc)
    /\ \E seed \in 0 .. MaxDkSeed : dks = generate_dks(MaxTotalWeight + 1, seed)
    /\ eks = eks_of(dks)
    /\ trx = [first |-> Unbuilt, second |-> Unbuilt]
    /\ st = [first |-> "unbuilt", second |-> "unbuilt"]
    /\ secrets = [first |-> <<>>, second |-> <<>>]
    /\ naggr = 0
    /\ ret = [op |-> "none"]

\* scrape::Transcript::deal with the keys of the first num_eks players
DealWithEks ==
    /\ ret.op = "none"
    /\ \E num_eks \in 0 .. sc.n + 1 :
       \E s \in Scalars : \E rnd \in [1 .. sc.t -> 0 .. MaxRnd] :
       \E res \in {deal(sc, pp, SubSeq(eks, 1, num_eks), s, DST_PVSS_TESTING_APP, rnd)} :
           /\ trx' = [trx EXCEPT !.first = res.trx]
           /\ st' = [st EXCEPT !.first = IF res.panic THEN "unbuilt" ELSE "dealt"]
           /\ secrets' = [secrets EXCEPT !.first = <<s>>]
           /\ ret' = [op |-> "deal", scheme |-> "scrape", slot |-> "first",
                      num_eks |-> num_eks, num_players |-> sc.n, panic |-> res.panic]
    /\ UNCHANGED <<wc, sc, dks, eks, naggr>>

\* Weighted::deal with the keys of the first num_eks players
WDealWithEks ==
    /\ ret.op = "none"
    /\ \E num_eks \in 0 .. wc.n + 1 :
       \E s \in Scalars : \E rnd \in [1 .. get_threshold_weight(wc) -> 0 .. MaxRnd] :
       \E res \in {Weighted_deal(wc, pp, SubSeq(eks, 1, num_eks), s,
                                 DST_PVSS_TESTING_APP, rnd)} :
           /\ trx' = [trx EXCEPT !.second = res.trx]
           /\ st' = [st EXCEPT !.second = IF res.panic THEN "unbuilt" ELSE "dealt"]
           /\ secrets' = [secrets EXCEPT !.second = <<s>>]
           /\ ret' = [op |-> "deal", scheme |-> "weighted", slot |-> "second",
                      num_eks |-> num_eks, num_players |-> wc.n, panic |-> res.panic]
    /\ UNCHANGED <<wc, sc, dks, eks, naggr>>

NextD ==
    \/ DealWithEks
    \/ WDealWithEks

SpecD == InitD /\ [][NextD]_vars

----------------------------------------------------------------------------
(* The contract of reconstruct: shares of every number, a share possibly   *)
(* given twice.                                                             *)

\* DealtSecretKey::reconstruct with the shares of the players of S followed
\* by the shares of the players of again
ReconstructWithShares ==
    /\ NoQueryPending
    /\ st.first = "dealt"
    /\ \E S \in SUBSET (0 .. sc.n - 1) :
       \E again \in {<<>>} \cup {<<p>> : p \in 0 .. sc.n - 1} :
       \E players \in {SortedSeq(S) \o again} :
       \E dec \in {decrypt_shares(trx.first, sc, players, dks)} :
       \E shares \in {[k \in 1 .. Len(players) |->
                         [player |-> Player(players[k]), share |-> dec[k].sk_share]]} :
       \E res \in {reconstruct(sc, shares)} :
           ret' = [op |-> "reconstruct", slot |-> "first", players |-> players,
                   panic |-> res.panic, key |-> res.h_hat]
    /\ UNCHANGED <<wc, sc, dks, eks, trx, st, secrets, naggr>>

\* DealtSecretKey::reconstruct with one share per player of S, a share being
\* any group element, the pairs listed in every order
ReconstructInEveryOrder ==
    /\ NoQueryPending
    /\ \E S \in SUBSET (0 .. sc.n - 1) :
         /\ Cardinality(S) >= sc.t
         /\ \E share \in [S -> GroupElements] :
            \E results \in {{reconstruct(sc, [k \in 1 .. Len(players) |->
                                  [player |-> Player(players[k]),
                                   share |-> share[players[k]]]]) :
                              players \in PermutationsOf(S)}} :
                ret' = [op |-> "reconstruct_orders", players |-> S, share |-> share,
                        panic |-> \E res \in results : res.panic,
                        keys |-> {res.h_hat : res \in results}]
    /\ UNCHANGED <<wc, sc, dks, eks, trx, st, secrets, naggr>>

NextR ==
    \/ Deal("first")
    \/ ReconstructWithShares
    \/ ReconstructInEveryOrder

SpecR == Init /\ [][NextR]_vars

----------------------------------------------------------------------------
(* The polynomial arithmetic and the dual code word, on every operand the  *)
(* evaluation domains of the field have room for.                           *)

\* random_scalars(len, rng): every vector of len scalars
Polys(len) == [1 .. len -> Scalars]

\* test_poly_multiply: f g by poly_mul_fft and by poly_mul_slow, and the
\* three of f g, fft_fg and naive_fg evaluated at a random point
test_poly_multiply ==
    /\ ret.op = "none"
    /\ \E num_coeffs_f \in 1 .. MaxCoeffs :
       \E num_coeffs_g \in 1 .. MaxCoeffs + 1 - num_coeffs_f :
       \E f \in Polys(num_coeffs_f) :
       \E g \in Polys(num_coeffs_g) :
       \E r \in Scalars :
       \E fft_fg \in {poly_mul_fft(f, g)} :
       \E naive_fg \in {poly_mul_slow(f, g)} :
           ret' = [op |-> "test_poly_multiply", f |-> f, g |-> g, r |-> r,
                   fft_fg |-> fft_fg, naive_fg |-> naive_fg,
                   fg_rand |-> Fmul(poly_eval(f, r), poly_eval(g, r)),
                   fft_fg_rand |-> poly_eval(fft_fg, r),
                   naive_fg_rand |-> poly_eval(naive_fg, r)]
    /\ UNCHANGED <<wc, sc, dks, eks, trx, st, secrets, naggr>>

\* test_poly_multiply_divide_and_conquer: operands of n = 2^log_n
\* coefficients each, f g by poly_mul_less_slow and by poly_mul_fft
test_poly_multiply_divide_and_conquer ==
    /\ ret.op = "none"
    /\ \E n \in {k \in 2 .. MaxCoeffs : is_power_of_two(k) /\ 2 * k - 1 <= MaxCoeffs} :
       \E f \in Polys(n) :
       \E g \in Polys(n) :
       \E r \in Scalars :
       \E fg \in {poly_mul_less_slow(f, g)} :
       \E fft_fg \in {poly_mul_fft(f, g)} :
           ret' = [op |-> "test_poly_multiply_divide_and_conquer",
                   f |-> f, g |-> g, r |-> r, fg |-> fg, fft_fg |-> fft_fg,
                   fg_rand |-> Fmul(poly_eval(f, r), poly_eval(g, r)),
                   our_fg_rand |-> poly_eval(fg, r)]
    /\ UNCHANGED <<wc, sc, dks, eks, trx, st, secrets, naggr>>

\* test_poly_shift: X^n f by poly_xnmul and by poly_mul_fft with the
\* polynomial Xn of n zeros followed by a one
test_poly_shift ==
    /\ ret.op = "none"
    /\ \E num_coeffs_f \in 1 .. MaxCoeffs :
       \E n \in 0 .. MaxCoeffs - num_coeffs_f :
       \E f \in Polys(num_coeffs_f) :
       \E Xn \in {[i \in 1 .. n + 1 |-> IF i = n + 1 THEN 1 ELSE 0]} :
           ret' = [op |-> "test_poly_shift", f |-> f, n |-> n, Xn |-> Xn,
                   xnmul |-> poly_xnmul(f, n), fft |-> poly_mul_fft(f, Xn)]
    /\ UNCHANGED <<wc, sc, dks, eks, trx, st, secrets, naggr>>

\* dual_code_word_test: a polynomial p of t coefficients evaluated at the
\* first n roots of unity, and its inner product with the word of
\* get_dual_code_word(t - 1, batch_dom, n, rng)
dual_code_word_test ==
    /\ ret.op = "none"
    /\ \E n \in 1 .. MaxCoeffs :
       \E t \in 1 .. n :
       \E p \in Polys(t) :
       \E f \in Polys(IF n - t - 1 > 0 THEN n - t - 1 ELSE 0) :
       \E batch_dom \in {BatchEvaluationDomain_new(n)} :
       \E p_evals \in {SubSeq(fft_assign(p, get_subdomain(batch_dom, n)), 1, n)} :
       \E res \in {get_dual_code_word(t - 1, batch_dom, n, f)} :
           ret' = [op |-> "dual_code_word_test", t |-> t, n |-> n, p |-> p, f |-> f,
                   panic |-> res.panic, vf |-> res.vf,
                   zero |-> SumSeq([i \in 1 .. Min(Len(p_evals), Len(res.vf)) |->
                                       Fmul(p_evals[i], res.vf[i])])]
    /\ UNCHANGED <<wc, sc, dks, eks, trx, st, secrets, naggr>>

NextA ==
    \/ test_poly_multiply
    \/ test_poly_multiply_divide_and_conquer
    \/ test_poly_shift
    \/ dual_code_word_test

SpecA == InitC /\ [][NextA]_vars

----------------------------------------------------------------------------
(* The operations of a transcript that take &self, next to deal and         *)
(* aggregate_with.                                                          *)

\* trx.decrypt_own_share(&sc, &player, &dk), player calling with its own key
DecryptOwnShare(slot) ==
    /\ NoQueryPending
    /\ st[slot] # "unbuilt"
    /\ \E p \in 0 .. sc.n - 1 :
       \E res \in {decrypt_own_share(trx[slot], sc, Player(p), dks[p + 1])} :
           ret' = [op |-> "decrypt_own_share", slot |-> slot, player |-> p,
                   dk |-> dks[p + 1], panic |-> res.panic,
                   sk_share |-> res.sk_share, pk_share |-> res.pk_share]
    /\ UNCHANGED <<wc, sc, dks, eks, trx, st, secrets, naggr>>

\* trx.get_dealt_public_key()
GetDealtPublicKey(slot) ==
    /\ NoQueryPending
    /\ st[slot] # "unbuilt"
    /\ \E res \in {get_dealt_public_key(trx[slot])} :
           ret' = [op |-> "get_dealt_public_key", slot |-> slot,
                   panic |-> res.panic, key |-> res.key]
    /\ UNCHANGED <<wc, sc, dks, eks, trx, st, secrets, naggr>>

\* trx.to_bytes()
ToBytes(slot) ==
    /\ NoQueryPending
    /\ st[slot] # "unbuilt"
    /\ ret' = [op |-> "to_bytes", slot |-> slot, bytes |-> Transcript_to_bytes(trx[slot])]
    /\ UNCHANGED <<wc, sc, dks, eks, trx, st, secrets, naggr>>

\* self.aggregate_with(&sc, &other) on a copy of self: the copy afterwards
aggregated(self, other) == aggregate_with(self, sc, other).trx

\* The two dealt transcripts and a third one dealt for the same
\* configuration are aggregated in both orders, and the three in every
\* order and grouping.
AggregateInEveryOrder ==
    /\ NoQueryPending
    /\ st.first = "dealt"
    /\ st.second = "dealt"
    /\ \E s \in Scalars : \E rnd \in [1 .. sc.t -> 0 .. MaxRnd] :
       \E third \in {deal(sc, pp, eks, s, DST_PVSS_TESTING_APP, rnd)} :
       \E three \in {<<trx.first, trx.second, third.trx>>} :
           ret' = [op |-> "aggregate_orders", third |-> third.trx,
                   panic |-> third.panic
                             \/ aggregate_with(trx.first, sc, trx.second).panic
                             \/ aggregate_with(trx.second, sc, trx.first).panic,
                   first_with_second |-> aggregated(trx.first, trx.second),
                   second_with_first |-> aggregated(trx.second, trx.first),
                   of_three |->
                       {aggregated(aggregated(three[p[1]], three[p[2]]), three[p[3]]) :
                            p \in PermutationsOf({1, 2, 3})}
                       \cup
                       {aggregated(three[p[1]], aggregated(three[p[2]], three[p[3]])) :
                            p \in PermutationsOf({1, 2, 3})}]
    /\ UNCHANGED <<wc, sc, dks, eks, trx, st, secrets, naggr>>

NextQ ==
    \/ \E slot \in Slots : Deal(slot)
    \/ Aggregate
    \/ \E slot \in Slots : Verify(slot)
    \/ \E slot \in Slots : DecryptOwnShare(slot)
    \/ \E slot \in Slots : GetDealtPublicKey(slot)
    \/ \E slot \in Slots : ToBytes(slot)
    \/ AggregateInEveryOrder

SpecQ == Init /\ [][NextQ]_vars

----------------------------------------------------------------------------
(* Properties of verification under tampering                              *)

\* verify answers false for at least one member of the hash family
RejectedBySomeChallenge(t) ==
    \E H \in HashInstances : ~ verify(t, sc, pp, eks, DST_PVSS_TESTING_APP, H).ok

\* verify answers true for every member of the hash family
AcceptedByEveryChallenge(t) ==
    \A H \in HashInstances : verify(t, sc, pp, eks, DST_PVSS_TESTING_APP, H).ok

\* The serialization of what arrived is that of the dealt transcript with
\* exactly one word replaced.
OneWordFlipped ==
    /\ st.second = "received"
    /\ \E a \in {Transcript_to_bytes(trx.first)} :
       \E b \in {Transcript_to_bytes(trx.second)} :
           /\ Len(a) = Len(b)
           /\ Cardinality({i \in 1 .. Len(a) : a[i] # b[i]}) = 1

\* The keys given to the verifier differ from the dealing keys in number,
\* or at a player whose evaluation commitment A[i] is not the identity.
EksDifferAtNonZeroShare ==
    \/ Len(eks) # Len(eks_of(dks))
    \/ \E i \in 1 .. Len(eks) : eks[i] # eks_of(dks)[i] /\ trx.first.A[i] # Identity

\* C5 as stated: after one byte of a verifying transcript is flipped (and
\* the result deserializes), and after verify is given encryption keys that
\* differ from the dealing ones, verify is not deterministically true: it
\* returns false for at least one challenge.
TamperingNeverAcceptedDeterministically ==
    (ret.op = "verify" /\ st.first = "dealt")
        => /\ (ret.slot = "second" /\ OneWordFlipped) => RejectedBySomeChallenge(trx.second)
           /\ (ret.slot = "first" /\ eks # eks_of(dks)) => RejectedBySomeChallenge(trx.first)

\* C5, amended: a flipped byte is never accepted deterministically; keys
\* that differ from the dealing ones are never accepted deterministically
\* when they differ in number or at a player whose evaluation commitment is
\* not the identity, and are accepted for every challenge when they differ
\* only at players whose evaluation commitment is the identity.
TamperingAcceptedOnlyAtIdentityShares ==
    (ret.op = "verify" /\ st.first = "dealt")
        => /\ (ret.slot = "second" /\ OneWordFlipped) => RejectedBySomeChallenge(trx.second)
           /\ (ret.slot = "first" /\ eks # eks_of(dks))
                 => IF EksDifferAtNonZeroShare
                    THEN RejectedBySomeChallenge(trx.first)
                    ELSE AcceptedByEveryChallenge(trx.first)

\* a flipped ciphertext and a substituted key, each rejected by the
\* multi-pairing check
FlippedByteRejected ==
    /\ ret.op = "verify"
    /\ ret.slot = "second"
    /\ OneWordFlipped
    /\ trx.second.Y_hat # trx.first.Y_hat
    /\ ~ ret.ok
    /\ ret.work = <<"multi_exp", "multi_miller_loop">>

\* C6: verify returns false before deriving any Fiat-Shamir challenge and
\* before any group operation when the number of encryption keys is not n,
\* or the number of evaluation commitments A is not n, or the number of
\* ciphertexts Y_hat is not n, or the number of coefficient commitments F
\* is not t.
LengthMismatchRejectedImmediately ==
    (/\ ret.op = "verify"
     /\ \/ Len(eks) # sc.n
        \/ Len(trx[ret.slot].A) # sc.n
        \/ Len(trx[ret.slot].Y_hat) # sc.n
        \/ Len(trx[ret.slot].F) # sc.t)
        => (ret.ok = FALSE /\ ~ ret.panic /\ ret.fs = <<>> /\ ret.work = <<>>)

\* only the number of coefficient commitments is wrong
WrongNumberOfCoefficientsRejected ==
    /\ ret.op = "verify"
    /\ Len(eks) = sc.n
    /\ Len(trx[ret.slot].A) = sc.n
    /\ Len(trx[ret.slot].Y_hat) = sc.n
    /\ Len(trx[ret.slot].F) = sc.t + 1
    /\ ret.ok = FALSE
    /\ ret.fs = <<>>

----------------------------------------------------------------------------
(* Properties of the Weighted wrapper                                      *)

\* C7: for every transcript, configuration, public parameters and
\* encryption-key vector, of the wrong length included, verify of the
\* SCRAPE scheme and of the Weighted wrapper returns true or false and
\* never aborts with a failed assertion or an out-of-bounds access.
VerifyNeverAborts ==
    ret.op \in {"verify", "weighted_verify"} => ~ ret.panic

\* The combined weight of a sequence of players.
CombinedWeight(players) == Sum([k \in 1 .. Len(players) |-> wc.weight[players[k] + 1]])

\* C8: for every WeightedConfig(w, n, weights), every transcript dealt by
\* the Weighted wrapper and every set of players of combined weight at
\* least w, the players' decrypt_own_share results reconstruct, through
\* Wrapped::reconstruct, to the dealt secret key of the input secret.
WeightedReconstructYieldsDealtSecretKey ==
    (ret.op = "weighted_reconstruct" /\ CombinedWeight(ret.players) >= get_threshold_weight(wc))
        => (/\ ~ ret.panic
            /\ ret.key = InputSecret_to_DealtSecretKey(secrets.first[1], pp))

\* C9: Weighted::decrypt_own_share returns a secret-share vector and a
\* public-share vector as long as the player's weight, whose i-th entries
\* are the inner decrypt_own_share results for the virtual player at slot
\* starting_index[player] + i, and touches no slot of another player.
OwnSharesAreTheSlotsOfThePlayer ==
    ret.op = "weighted_decrypt_own_share"
        => /\ ~ ret.panic
           /\ Len(ret.sk_share) = wc.weight[ret.player + 1]
           /\ Len(ret.pk_share) = wc.weight[ret.player + 1]
           /\ \A i \in 1 .. wc.weight[ret.player + 1] :
                 \E inner \in {decrypt_own_share(
                                  trx.first, get_threshold_config(wc),
                                  Player(wc.starting_index[ret.player + 1] + i - 1),
                                  dks[ret.player + 1])} :
                     /\ ret.sk_share[i] = inner.sk_share
                     /\ ret.pk_share[i] = inner.pk_share

\* C10: for every WeightedConfig, every player p in [0, n) and every i
\* below weight[p], get_virtual_player(p, i) returns the Player whose id is
\* starting_index[p] + i, an index in [0, W).
VirtualPlayerIsSlotOfThePlayer ==
    (ret.op = "get_virtual_player" /\ ret.i < wc.weight[ret.player + 1])
        => /\ ~ ret.panic
           /\ ret.id = wc.starting_index[ret.player + 1] + ret.i
           /\ ret.id < get_total_weight(wc)

\* The slots of player p: starting_index[p] .. starting_index[p] + weight[p] - 1
SlotsOf(config, p) ==
    {config.starting_index[p + 1] + k : k \in 0 .. config.weight[p + 1] - 1}

\* C11: get_virtual_player(p, i) with i at or above weight[p] fails by an
\* assertion; it never returns a slot of another player.
VirtualPlayerBeyondWeightAborts ==
    (ret.op = "get_virtual_player" /\ ret.i >= wc.weight[ret.player + 1])
        => /\ ret.panic
           /\ \A q \in (0 .. wc.n - 1) \ {ret.player} : ret.id \notin SlotsOf(wc, q)

----------------------------------------------------------------------------
(* Properties of the configurations                                        *)

\* C12: every WeightedConfig built by WeightedConfig::new(w, n, weights) has
\* one starting index per entry of weights, starting_index[i] is the sum of
\* weight[j] for j < i, and the inner threshold configuration has threshold
\* w and total W, the sum of all weights.
StartingIndexIsSumOfEarlierWeights ==
    ret.op = "weighted_config_new"
        => /\ Len(wc.starting_index) = Len(ret.weight)
           /\ \A i \in 1 .. Len(ret.weight) :
                  wc.starting_index[i] = Sum(SubSeq(ret.weight, 1, i - 1))
           /\ wc.weight = ret.weight
           /\ wc.tc.t = ret.w
           /\ wc.tc.n = Sum(ret.weight)

WeightedConfigOfUnequalWeightsBuilt ==
    /\ ret.op = "weighted_config_new"
    /\ ret.weight = <<2, 1, 1>>
    /\ ret.w = 3
    /\ wc.starting_index = <<0, 2, 3>>
    /\ wc.tc.n = 4

\* C13: every ThresholdConfig that exists satisfies 1 <= t <= n, whether
\* made by ThresholdConfig::new(t, n) or inside WeightedConfig::new(w, n,
\* weights).
ThresholdWithinOneAndN ==
    /\ 1 <= sc.t /\ sc.t <= sc.n
    /\ 1 <= wc.tc.t /\ wc.tc.t <= wc.tc.n

\* C20: get_player(i) of a configuration with n players returns the Player
\* of id i when i < n and fails by assertion when i >= n; every Player that
\* a configuration makes has its id in [0, n).
GetPlayerChecksTheIndex ==
    ret.op = "get_player"
        => /\ ret.config \in {"threshold", "weighted"}
                => /\ ret.i < ret.n => (~ ret.panic /\ ret.id = ret.i)
                   /\ ret.i >= ret.n => ret.panic
           /\ ~ ret.panic => ret.id \in 0 .. ret.n - 1

GetPlayerAbortedAndReturned ==
    /\ ret.op = "get_player"
    /\ ret.config = "weighted"
    /\ wc.n = 2
    /\ get_total_weight(wc) = 4
    /\ ret.i = 2
    /\ ret.panic

----------------------------------------------------------------------------
(* Properties of the serialization                                         *)

\* C14: for every SCRAPE transcript, dealt, aggregated or generated,
\* Transcript::try_from(trx.to_bytes()) succeeds and equals trx, and
\* serializing the result again gives the same bytes.
TranscriptRoundTrips ==
    ret.op = "round_trip"
        => /\ ret.ok
           /\ ret.trx = trx[ret.slot]
           /\ ret.bytes_again = ret.bytes

AggregatedTranscriptRoundTripped ==
    /\ ret.op = "round_trip"
    /\ st[ret.slot] = "aggregated"
    /\ ret.ok
    /\ Len(ret.trx.F) < Len(ret.trx.A)
    /\ ret.trx.u2_hat # Identity
    /\ \E i \in 1 .. Len(ret.trx.A) : ret.trx.A[i] # Identity

PublicParametersRoundTrips ==
    ret.op = "pp_round_trip"
        => /\ ret.ok /\ ~ ret.panic
           /\ ret.enc = get_encryption_key_base(ret.pp)
           /\ ret.u1_hat = get_public_key_base(ret.pp)
           /\ ret.g1 = get_commitment_base(ret.pp)
           /\ ret.num_bytes = 240
           /\ ret.words = to_compressed(get_encryption_key_base(ret.pp))
                              \o to_compressed(get_public_key_base(ret.pp))
                              \o to_compressed(get_commitment_base(ret.pp))

PublicParametersOfThreeBasesRoundTripped ==
    /\ ret.op = "pp_round_trip"
    /\ ret.ok
    /\ ret.pp = new_from_seed(1, 2, 3)
    /\ ret.enc = 1 /\ ret.u1_hat = 2 /\ ret.g1 = 3

\* C17: PublicParameters::try_from never panics: it returns the wrong-length
\* error for every input whose length is not 240, the deserialization
\* error when the length is 240 and one of the three points does not
\* decode, and Ok only when all three decode.
PublicParametersTryFromNeverPanics ==
    ret.op = "pp_try_from"
        => /\ ~ ret.panic
           /\ ret.num_bytes # 240 => (~ ret.ok /\ ret.err = "WrongLengthError")
           /\ (ret.num_bytes = 240
                 /\ \E k \in 1 .. 3 : ~ from_compressed(ret.words[k]).some)
                => (~ ret.ok /\ ret.err = "DeserializationError")
           /\ ret.ok <=> /\ ret.num_bytes = 240
                         /\ \A k \in 1 .. 3 : from_compressed(ret.words[k]).some
           /\ ret.ok => \A k \in 1 .. 3 :
                  <<get_encryption_key_base(ret.pp), get_public_key_base(ret.pp),
                    get_commitment_base(ret.pp)>>[k]
                      = from_compressed(ret.words[k]).p

CommitmentBaseNotDecoded ==
    /\ ret.op = "pp_try_from"
    /\ ret.num_bytes = 240
    /\ from_compressed(ret.words[1]).some
    /\ from_compressed(ret.words[2]).some
    /\ ~ from_compressed(ret.words[3]).some
    /\ ret.err = "DeserializationError"

----------------------------------------------------------------------------
(* Properties of the contracts of deal and reconstruct                     *)

\* C18: deal called with a number of encryption keys different from the
\* configuration's number of players (n for the SCRAPE scheme, the number
\* of real players for the Weighted wrapper) aborts with a fatal assertion
\* and produces no transcript.
DealWithWrongNumberOfEksAborts ==
    (ret.op = "deal" /\ ret.num_eks # ret.num_players)
        => (ret.panic /\ st[ret.slot] = "unbuilt")

\* C19: DealtSecretKey::reconstruct aborts with a fatal assertion when given
\* fewer than t shares or more than n shares, and computes a result only
\* when t <= shares.len() <= n.
ReconstructChecksTheNumberOfShares ==
    ret.op = "reconstruct"
        => /\ (Len(ret.players) < sc.t \/ Len(ret.players) > sc.n) => ret.panic
           /\ ~ ret.panic => (sc.t <= Len(ret.players) /\ Len(ret.players) <= sc.n)

TooManySharesRefused ==
    /\ ret.op = "reconstruct"
    /\ Len(ret.players) = sc.n + 1
    /\ sc.t < sc.n
    /\ ret.panic

----------------------------------------------------------------------------
(* Properties of dealing, verifying, aggregating and reconstructing        *)

\* C1: a transcript produced by deal, for any 1 <= t <= n, any secret and any
\* randomness, verifies against the same configuration, public parameters,
\* encryption keys and domain-separation tag: verify returns true.
DealtTranscriptVerifies ==
    (ret.op = "verify" /\ st[ret.slot] = "dealt" /\ eks = eks_of(dks))
        => (ret.ok /\ ~ ret.panic)

DealtTranscriptVerified ==
    /\ ret.op = "verify"
    /\ st[ret.slot] = "dealt"
    /\ eks = eks_of(dks)
    /\ secrets[ret.slot][1] # 0
    /\ ret.ok
    /\ 1 < sc.t
    /\ sc.t < sc.n

\* C2: from a dealt transcript, the shares that the players of any set S
\* with t <= |S| <= n decrypt with their own keys reconstruct to the dealt
\* secret key, h1^a for the input secret a.
ReconstructYieldsDealtSecretKey ==
    (/\ ret.op = "reconstruct"
     /\ st[ret.slot] = "dealt"
     /\ Len(ret.players) >= sc.t
     /\ Len(ret.players) <= sc.n)
        => (/\ ~ ret.panic
            /\ ret.key = InputSecret_to_DealtSecretKey(secrets[ret.slot][1], pp))

ReconstructedFromProperSubset ==
    /\ ret.op = "reconstruct"
    /\ st[ret.slot] = "dealt"
    /\ Len(ret.players) >= sc.t
    /\ Len(ret.players) < sc.n
    /\ ret.players[1] # 0
    /\ ~ ret.panic
    /\ ret.key # Identity
    /\ ret.key = InputSecret_to_DealtSecretKey(secrets[ret.slot][1], pp)

\* C3: after first.aggregate_with(second) on transcripts dealt for the
\* secrets a1 and a2 under the same configuration and keys, the shares
\* decrypted from the aggregate reconstruct to h1^(a1 + a2).
AggregateReconstructsToSum ==
    (/\ ret.op = "reconstruct"
     /\ ret.slot = "first"
     /\ st.first = "aggregated"
     /\ Len(ret.players) >= sc.t)
        => (/\ ~ ret.panic
            /\ ret.key = InputSecret_to_DealtSecretKey(SumSeq(secrets.first), pp))

AggregateReconstructed ==
    /\ ret.op = "reconstruct"
    /\ ret.slot = "first"
    /\ st.first = "aggregated"
    /\ Len(secrets.first) = 2
    /\ Len(ret.players) >= sc.t
    /\ secrets.first[1] # 0
    /\ secrets.first[2] # 0
    /\ ret.key = InputSecret_to_DealtSecretKey(Fadd(secrets.first[1], secrets.first[2]), pp)
    /\ ret.key # InputSecret_to_DealtSecretKey(secrets.first[1], pp)

\* C4: whenever first.aggregate_with(second) runs on two transcripts that
\* both verify, the aggregated transcript verifies too, under the same
\* configuration, public parameters, encryption keys and tag.
AggregatePreservesVerification ==
    [][\A H \in HashInstances :
         (/\ naggr' = naggr + 1
          /\ verify(trx.first, sc, pp, eks, DST_PVSS_TESTING_APP, H).ok
          /\ verify(trx.second, sc, pp, eks, DST_PVSS_TESTING_APP, H).ok)
             => verify(trx'.first, sc, pp, eks, DST_PVSS_TESTING_APP, H).ok]_vars

AggregateVerified ==
    /\ ret.op = "verify"
    /\ ret.slot = "first"
    /\ st.first = "aggregated"
    /\ trx.first.u2_hat # Identity
    /\ ret.ok

----------------------------------------------------------------------------
(* Properties of the polynomial arithmetic                                  *)

\* C21: poly_mul_fft(f, g) is exactly poly_mul_slow(f, g), and for operands
\* of equal power-of-two length exactly poly_mul_less_slow(f, g); each
\* product evaluates at every point r to f(r) g(r).
MultiplicationsAgree ==
    /\ ret.op = "test_poly_multiply" =>
         /\ ret.naive_fg = ret.fft_fg
         /\ Len(ret.fft_fg) = Len(ret.f) + Len(ret.g) - 1
         /\ ret.fft_fg_rand = ret.fg_rand
         /\ ret.naive_fg_rand = ret.fg_rand
    /\ ret.op = "test_poly_multiply_divide_and_conquer" =>
         /\ ret.fg = ret.fft_fg
         /\ ret.our_fg_rand = ret.fg_rand

\* Two operands of two coefficients each, none of them zero, multiplied over
\* the domain of four points.
ProductOverFourPoints ==
    /\ ret.op = "test_poly_multiply_divide_and_conquer"
    /\ \A i \in 1 .. 2 : ret.f[i] # 0 /\ ret.g[i] # 0
    /\ Len(ret.fft_fg) = 3
    /\ ret.fft_fg[3] # 0
    /\ ret.r # 0

\* C22: poly_xnmul(f, n) is poly_mul_fft(f, Xn), Xn being n zeros followed
\* by a one.
ShiftIsMultiplicationByXn ==
    ret.op = "test_poly_shift" => ret.xnmul = ret.fft

\* A polynomial of two coefficients shifted by two.
ShiftedByTwo ==
    /\ ret.op = "test_poly_shift"
    /\ ret.n = 2
    /\ Len(ret.f) = 2
    /\ ret.f[1] # 0 /\ ret.f[2] # 0
    /\ ret.xnmul = <<0, 0>> \o ret.f

\* C27: the evaluations of a polynomial of t coefficients at the first n
\* roots of unity are orthogonal to every word get_dual_code_word(t - 1,
\* batch_dom, n, rng) returns.
DualCodeWordIsOrthogonal ==
    (ret.op = "dual_code_word_test" /\ ~ ret.panic) => ret.zero = 0

\* A word without a zero entry for three players, three not being a power
\* of two, and a polynomial whose evaluations are not all zero.
DualCodeWordOfThreePlayers ==
    /\ ret.op = "dual_code_word_test"
    /\ ~ ret.panic
    /\ ret.n = 3 /\ ret.t = 1
    /\ ret.p[1] # 0
    /\ Len(ret.vf) = 3
    /\ \A i \in 1 .. 3 : ret.vf[i] # 0

----------------------------------------------------------------------------
(* Properties of the keys the Weighted wrapper hands to the inner scheme   *)

\* C23: given one key per player, Weighted deal and verify hand the inner
\* scheme W keys, player p's key at the positions starting_index[p] + i for
\* i < weight[p], so that each key fills one run of weight[p] positions.
DuplicatedKeysFollowStartingIndices ==
    (ret.op \in {"weighted_deal", "weighted_verify"} /\ Len(eks) = wc.n) =>
        /\ ~ ret.duplicated_eks.panic
        /\ Len(ret.duplicated_eks.eks) = get_total_weight(wc)
        /\ \A p \in 0 .. wc.n - 1 :
             /\ \A i \in 0 .. wc.weight[p + 1] - 1 :
                   ret.duplicated_eks.eks[wc.starting_index[p + 1] + i + 1] = eks[p + 1]
             /\ {k \in 1 .. Len(ret.duplicated_eks.eks) :
                    ret.duplicated_eks.eks[k] = eks[p + 1]}
                  = wc.starting_index[p + 1] + 1 ..
                       wc.starting_index[p + 1] + wc.weight[p + 1]

\* Keys of two players of unequal weights were duplicated for verify.
KeysOfUnequalWeightsDuplicated ==
    /\ ret.op = "weighted_verify"
    /\ Len(eks) = wc.n
    /\ wc.n >= 2
    /\ wc.weight[1] = 2 /\ wc.weight[2] = 1
    /\ ~ ret.duplicated_eks.panic
    /\ ret.duplicated_eks.eks[3] = eks[2]

----------------------------------------------------------------------------
(* Properties of the shares, of the frame and of aggregation               *)

\* The polynomial a dealt transcript was dealt with: the input secret
\* followed by the random coefficients of deal.
DealtWith(slot, f) ==
    /\ f[1] = secrets[slot][1]
    /\ \E res \in {deal(sc, pp, eks, f[1], DST_PVSS_TESTING_APP, f)} :
          ~ res.panic /\ res.trx = trx[slot]

\* C24: for a transcript dealt with the polynomial f, decrypt_own_share of
\* player i with its own key returns the secret-key share Y_hat[i]^dk_i,
\* which is the encryption base to the f(w^i), and the public-key share
\* A[i], which is the commitment base to the f(w^i).
DecryptedShareIsEvaluationOfPolynomial ==
    (ret.op = "decrypt_own_share" /\ st[ret.slot] = "dealt") =>
        /\ ~ ret.panic
        /\ eks[ret.player + 1] = Gmul(get_encryption_key_base(pp), Finv(ret.dk))
        /\ ret.sk_share = Gmul(trx[ret.slot].Y_hat[ret.player + 1], ret.dk)
        /\ ret.pk_share = trx[ret.slot].A[ret.player + 1]
        /\ \E f \in [1 .. sc.t -> Scalars] : DealtWith(ret.slot, f)
        /\ \A f \in [1 .. sc.t -> Scalars] :
             DealtWith(ret.slot, f) =>
               \E y \in {poly_eval(f, get_root(sc.dom, ret.player))} :
                  /\ ret.sk_share = Gmul(get_encryption_key_base(pp), y)
                  /\ ret.pk_share = Gmul(get_commitment_base(pp), y)

\* The last of three players decrypted a share that is not the identity from
\* a transcript dealt with a polynomial of degree two.
ShareOfLastPlayerDecrypted ==
    /\ ret.op = "decrypt_own_share"
    /\ st[ret.slot] = "dealt"
    /\ sc.n = 3 /\ sc.t = 3
    /\ ret.player = 2
    /\ trx[ret.slot].F[3] # Identity
    /\ ret.sk_share # Identity
    /\ ret.sk_share # trx[ret.slot].Y_hat[3]

\* What the challenges of a verify call are drawn from: the dst, the domain
\* separator with t and n, the bytes of the public parameters, the number of
\* encryption keys and each key, and the bytes of the transcript.
HashedBeforeAlpha(t) ==
    << [label |-> "dst", data |-> DST_PVSS_TESTING_APP],
       [label |-> "dom-sep", data |-> PVSS_DOM_SEP],
       [label |-> "t", data |-> <<sc.t>>],
       [label |-> "n", data |-> <<sc.n>>],
       [label |-> "pp", data |-> PublicParameters_to_bytes(pp)],
       [label |-> "encryption-keys", data |-> <<Len(eks)>>] >>
    \o [i \in 1 .. Len(eks) |-> [label |-> "g2_point", data |-> to_compressed(eks[i])]]
    \o << [label |-> "transcript", data |-> Transcript_to_bytes(t)] >>

\* C25: a verify call that gets past the length checks seeds the
\* Fiat-Shamir state with the dst and appends, in this order, the domain
\* separator with t and n, the public parameters, the encryption keys with
\* their count and the transcript; alpha is drawn after these and r after
\* alpha, so that both are determined by what was appended.
ChallengesDrawnAfterAllIsAppended ==
    (ret.op = "verify" /\ verify_lengths(trx[ret.slot], sc, eks)) =>
        \E before \in {HashedBeforeAlpha(trx[ret.slot])} :
            /\ ret.fs = Labels(before) \o <<"challenge_alpha", "challenge_multipairing">>
            /\ \A H \in HashInstances :
                 \E ch \in {fiat_shamir(trx[ret.slot], sc, pp, eks,
                                         DST_PVSS_TESTING_APP, H)} :
                    /\ ch.alpha = Fadd(Digest(before), H.challenge_alpha)
                    /\ ch.r = Fadd(Digest(Append(before,
                                      [label |-> "challenge_alpha", data |-> <<>>])),
                                   H.challenge_multipairing)

\* verify drew its challenges for a transcript that arrived with a word
\* flipped, three keys being hashed.
ChallengesDrawnForTamperedTranscript ==
    /\ ret.op = "verify"
    /\ ret.slot = "second"
    /\ st.second = "received"
    /\ Len(eks) = 3
    /\ Len(ret.fs) = 12
    /\ ret.fs[11] = "challenge_alpha"

\* The operations of a transcript that take &self.
ReadOnlyOperations == {"verify", "get_dealt_public_key", "decrypt_own_share", "to_bytes"}

\* C26: the contents of a transcript that was built change only when it is
\* the receiver of aggregate_with: verify, get_dealt_public_key,
\* decrypt_own_share and to_bytes leave both transcripts as they were, and
\* aggregate_with leaves its argument as it was.
TranscriptChangesOnlyAsReceiver ==
    [][/\ ret'.op \in ReadOnlyOperations => trx' = trx
       /\ ret'.op = "aggregate_with" => trx'.second = trx.second
       /\ \A slot \in Slots :
            (st[slot] # "unbuilt" /\ trx'[slot] # trx[slot]) =>
                (slot = "first" /\ ret'.op = "aggregate_with")]_vars

\* The receiver of aggregate_with changed, its argument being a transcript
\* other than the identity.
ReceiverChanged ==
    /\ ret.op = "aggregate_with"
    /\ st.first = "aggregated"
    /\ trx.second.u2_hat # Identity
    /\ trx.first # trx.second
    /\ Len(secrets.first) = 2

\* The sum of the input secrets dealt into a transcript.
SumOfSecrets(slot) == SumSeq(secrets[slot])

\* C28: a transcript obtained by deal followed by aggregate_with calls has
\* t entries in F and n entries in A and in Y_hat, its dealt public key F[0]
\* is the commitment base to the sum s of the input secrets, and u2_hat is
\* the public-key base to the s.
TranscriptCommitsToSumOfSecrets ==
    \A slot \in Slots :
        st[slot] \in {"dealt", "aggregated"} =>
            /\ Len(trx[slot].F) = sc.t
            /\ Len(trx[slot].A) = sc.n
            /\ Len(trx[slot].Y_hat) = sc.n
            /\ \E res \in {get_dealt_public_key(trx[slot])} :
                  /\ ~ res.panic
                  /\ res.key = trx[slot].F[1]
                  /\ res.key = InputSecret_to_DealtPubKey(SumOfSecrets(slot), pp)
            /\ trx[slot].u2_hat = Gmul(get_public_key_base(pp), SumOfSecrets(slot))
            /\ (ret.op = "get_dealt_public_key" /\ ret.slot = slot) =>
                  ret.key = Gmul(get_commitment_base(pp), SumOfSecrets(slot))

\* The dealt public key of a transcript aggregated from two secrets, neither
\* of them zero and their sum not zero, was asked for.
DealtPublicKeyOfAggregate ==
    /\ ret.op = "get_dealt_public_key"
    /\ ret.slot = "first"
    /\ st.first = "aggregated"
    /\ Len(secrets.first) = 2
    /\ secrets.first[1] # 0 /\ secrets.first[2] # 0
    /\ SumOfSecrets("first") # 0
    /\ sc.t = 2 /\ sc.n = 3

\* C29: aggregate_with is commutative, a with b being the transcript b with
\* a is, and the aggregate of three transcripts is the same in every order
\* and grouping.
AggregationIsCommutativeAndAssociative ==
    ret.op = "aggregate_orders" =>
        /\ ~ ret.panic
        /\ ret.first_with_second = ret.second_with_first
        /\ Cardinality(ret.of_three) = 1

\* Three transcripts, different from one another and none of them the
\* identity in its first ciphertext, were aggregated.
ThreeDifferentTranscriptsAggregated ==
    /\ ret.op = "aggregate_orders"
    /\ sc.n = 3
    /\ trx.first # trx.second
    /\ ret.third # trx.first /\ ret.third # trx.second
    /\ trx.first.Y_hat[1] # Identity /\ trx.second.Y_hat[1] # Identity
    /\ ret.third.Y_hat[1] # Identity
    /\ ret.first_with_second # trx.first

\* C30: DealtSecretKey::reconstruct does not depend on the order of the
\* shares: for players that are distinct and number between t and n, the
\* pairs listed in any order give the same key.
ReconstructIgnoresOrderOfShares ==
    ret.op = "reconstruct_orders" =>
        /\ ~ ret.panic
        /\ Cardinality(ret.keys) = 1

\* Three players with three different shares, reconstructing a key that is
\* not the identity.
ThreeDifferentSharesReconstructed ==
    /\ ret.op = "reconstruct_orders"
    /\ ret.players = {0, 1, 2}
    /\ sc.t = 2
    /\ Cardinality({ret.share[p] : p \in ret.players}) = 3
    /\ Identity \notin ret.keys

====
